---- MODULE Spec2Model ----
(***************************************************************************)
(* Verification model of dbquery (samyou/dbquery): the SQL safety guard    *)
(* (ensureReadOnlySQL, ensureLimit, stripLeadingComments), the             *)
(* natural-language pipeline (processNaturalLanguageQuery) and schema      *)
(* introspection (introspectSchema and its three dialects).                *)
(*                                                                         *)
(* SQL text is a sequence of one-character strings, so that trimming,      *)
(* prefix tests, lower-casing and the two regular expressions are computed *)
(* character by character as the Go code computes them.                    *)
(***************************************************************************)
EXTENDS Integers, Sequences, FiniteSets, TLC

(***************************************************************************)
(* Bounds of the model.                                                    *)
(***************************************************************************)
\* Longest SQL text given to the guard, counted in fragments of Frags.
MaxFrags == 3

\* Most processNaturalLanguageQuery calls in one run (chat turns).
MaxTurns == 2

\* Most rows a query returns.
MaxRows == 2

\* Largest maxTables given to introspectSchema.
MaxTablesCap == 2

(***************************************************************************)
(* Characters and the Go string helpers used by the guard.                 *)
(***************************************************************************)
LowerLetters ==
  <<"a","b","c","d","e","f","g","h","i","j","k","l","m",
    "n","o","p","q","r","s","t","u","v","w","x","y","z">>

UpperLetters ==
  <<"A","B","C","D","E","F","G","H","I","J","K","L","M",
    "N","O","P","Q","R","S","T","U","V","W","X","Y","Z">>

Digits == <<"0","1","2","3","4","5","6","7","8","9">>

Range(f) == { f[i] : i \in DOMAIN f }

SpaceChars == {" ", "\n", "\t", "\r"}

WordChars == Range(LowerLetters) \cup Range(UpperLetters) \cup Range(Digits) \cup {"_"}

DigitChars == Range(Digits)

LowerOf ==
  [c \in Range(UpperLetters) |->
     LowerLetters[CHOOSE i \in DOMAIN UpperLetters : UpperLetters[i] = c]]

\* unicode.IsSpace restricted to the characters of the model's alphabet;
\* the same characters are the regexp class \s.
IsSpace(c) == c \in SpaceChars

\* The regexp class \w: [0-9A-Za-z_].
IsWordChar(c) == c \in WordChars

\* The regexp class \d.
IsDigit(c) == c \in DigitChars

\* unicode.ToLower on one character.
ToLowerChar(c) == IF c \in DOMAIN LowerOf THEN LowerOf[c] ELSE c

\* strings.ToLower
ToLower(s) == [i \in 1..Len(s) |-> ToLowerChar(s[i])]

RECURSIVE TrimLeftSpace(_)
TrimLeftSpace(s) ==
  IF s # <<>> /\ IsSpace(Head(s)) THEN TrimLeftSpace(Tail(s)) ELSE s

RECURSIVE TrimRightSpace(_)
TrimRightSpace(s) ==
  IF s # <<>> /\ IsSpace(s[Len(s)])
    THEN TrimRightSpace(SubSeq(s, 1, Len(s) - 1))
    ELSE s

\* strings.TrimSpace
TrimSpace(s) == TrimRightSpace(TrimLeftSpace(s))

\* strings.HasPrefix
HasPrefix(s, p) == Len(s) >= Len(p) /\ SubSeq(s, 1, Len(p)) = p

\* strings.HasSuffix
HasSuffix(s, p) == Len(s) >= Len(p) /\ SubSeq(s, Len(s) - Len(p) + 1, Len(s)) = p

\* strings.TrimSuffix: removes one occurrence of the suffix, if present.
TrimSuffix(s, p) == IF HasSuffix(s, p) THEN SubSeq(s, 1, Len(s) - Len(p)) ELSE s

\* sub occurs in s starting at (1-based) position i.
OccursAt(s, sub, i) ==
  /\ i >= 1
  /\ i + Len(sub) - 1 <= Len(s)
  /\ SubSeq(s, i, i + Len(sub) - 1) = sub

\* strings.Index, 1-based; 0 stands for Go's -1.
Index(s, sub) ==
  IF \E i \in 1..Len(s) : OccursAt(s, sub, i)
    THEN CHOOSE i \in 1..Len(s) :
           /\ OccursAt(s, sub, i)
           /\ \A j \in 1..(i - 1) : ~OccursAt(s, sub, j)
    ELSE 0

\* strconv.Itoa / fmt's %d for an int.
RECURSIVE Itoa(_)
Itoa(n) ==
  IF n < 0 THEN <<"-">> \o Itoa(0 - n)
  ELSE IF n < 10 THEN <<Digits[n + 1]>>
  ELSE Itoa(n \div 10) \o <<Digits[(n % 10) + 1]>>

(***************************************************************************)
(* SQL text constants.                                                     *)
(***************************************************************************)
kwSelect == <<"s","e","l","e","c","t">>
kwWith == <<"w","i","t","h">>
kwExplainSelect == <<"e","x","p","l","a","i","n"," ","s","e","l","e","c","t">>
kwLimit == <<"l","i","m","i","t">>
txtLineComment == <<"-","-">>
txtBlockOpen == <<"/","*">>
txtBlockClose == <<"*","/">>
txtNewline == <<"\n">>
txtSemicolon == <<";">>
txtLimitClause == <<" ","L","I","M","I","T"," ">>

\* The alternatives of forbiddenWritePattern.
ForbiddenWords ==
  { <<"i","n","s","e","r","t">>,
    <<"u","p","d","a","t","e">>,
    <<"d","e","l","e","t","e">>,
    <<"d","r","o","p">>,
    <<"a","l","t","e","r">>,
    <<"t","r","u","n","c","a","t","e">>,
    <<"c","r","e","a","t","e">>,
    <<"g","r","a","n","t">>,
    <<"r","e","v","o","k","e">>,
    <<"m","e","r","g","e">>,
    <<"c","a","l","l">>,
    <<"r","e","p","l","a","c","e">> }

\* The regexp assertion \b between positions i-1 and i of s (1-based; i may
\* be Len(s)+1): exactly one side is a word character.
WordBoundary(s, i) ==
  LET before == i > 1 /\ i - 1 <= Len(s) /\ IsWordChar(s[i - 1])
      after == i >= 1 /\ i <= Len(s) /\ IsWordChar(s[i])
  IN before # after

\* Mutant: the pattern without its leading \b.
forbiddenWritePattern_NoLeadingBoundary(s) ==
  LET l == ToLower(s)
  IN \E w \in ForbiddenWords :
       \E i \in 1..Len(s) :
         /\ OccursAt(l, w, i)
         /\ WordBoundary(s, i + Len(w))

\* forbiddenWritePattern.MatchString: (?i)\b(insert|...|replace)\b
forbiddenWritePattern(s) ==
  LET l == ToLower(s)
  IN \E w \in ForbiddenWords :
       \E i \in 1..Len(s) :
         /\ OccursAt(l, w, i)
         /\ WordBoundary(s, i)
         /\ WordBoundary(s, i + Len(w))

\* Mutant: the pattern anchored at the end of the text, (?i)\blimit\s+\d+$.
hasLimitPattern_Anchored(s) ==
  LET l == ToLower(s)
  IN \E i \in 1..Len(s) :
       /\ OccursAt(l, kwLimit, i)
       /\ WordBoundary(s, i)
       /\ \E j \in (i + Len(kwLimit) + 1)..Len(s) :
            /\ \A k \in j..Len(s) : IsDigit(s[k])
            /\ \A k \in (i + Len(kwLimit))..(j - 1) : IsSpace(s[k])

\* hasLimitPattern.MatchString: (?i)\blimit\s+\d+
hasLimitPattern(s) ==
  LET l == ToLower(s)
  IN \E i \in 1..Len(s) :
       /\ OccursAt(l, kwLimit, i)
       /\ WordBoundary(s, i)
       /\ \E j \in (i + Len(kwLimit) + 1)..Len(s) :
            /\ IsDigit(s[j])
            /\ \A k \in (i + Len(kwLimit))..(j - 1) : IsSpace(s[k])

(***************************************************************************)
(* sqlutil: stripLeadingComments, ensureReadOnlySQL, ensureLimit.          *)
(***************************************************************************)
RECURSIVE stripLeadingComments(_)
stripLeadingComments(sqlText) ==
  LET s == TrimSpace(sqlText)
  IN IF HasPrefix(s, txtLineComment)
       THEN LET idx == Index(s, txtNewline)
            IN IF idx = 0 THEN <<>>
               ELSE stripLeadingComments(SubSeq(s, idx + 1, Len(s)))
     ELSE IF HasPrefix(s, txtBlockOpen)
       THEN LET idx == Index(s, txtBlockClose)
            IN IF idx = 0 THEN <<>>
               ELSE stripLeadingComments(SubSeq(s, idx + 2, Len(s)))
     ELSE s

NoErr == "nil"
ErrNotReadOnly == "generated SQL is not read-only; use --allow-write to permit non-SELECT statements"
ErrWriteKeywords == "generated SQL contains write/DDL keywords; use --allow-write if intentional"

\* The statement as both guard operations look at it.
cleanedLower(query) == ToLower(TrimSpace(stripLeadingComments(query)))

\* Mutant: the opening explain select is not accepted.
ensureReadOnlySQL_NoExplain(query) ==
  LET lower == cleanedLower(query)
  IN IF ~(HasPrefix(lower, kwSelect) \/ HasPrefix(lower, kwWith))
       THEN ErrNotReadOnly
     ELSE IF forbiddenWritePattern(lower)
       THEN ErrWriteKeywords
     ELSE NoErr

ensureReadOnlySQL(query) ==
  LET lower == cleanedLower(query)
  IN IF ~(HasPrefix(lower, kwSelect) \/ HasPrefix(lower, kwWith) \/ HasPrefix(lower, kwExplainSelect))
       THEN ErrNotReadOnly
     ELSE IF forbiddenWritePattern(lower)
       THEN ErrWriteKeywords
     ELSE NoErr

\* Mutant: the limit clause is put in front of the statement.
ensureLimit_LimitFirst(query, limit) ==
  IF limit <= 0 THEN query
  ELSE LET lower == cleanedLower(query)
       IN IF ~(HasPrefix(lower, kwSelect) \/ HasPrefix(lower, kwWith)) THEN query
          ELSE IF hasLimitPattern(lower) THEN query
          ELSE <<"L","I","M","I","T"," ">> \o Itoa(limit) \o <<" ">>
               \o TrimSuffix(TrimSpace(query), txtSemicolon) \o txtSemicolon

\* Mutant: the trailing semicolon is kept.
ensureLimit_KeepSemicolon(query, limit) ==
  IF limit <= 0 THEN query
  ELSE LET lower == cleanedLower(query)
       IN IF ~(HasPrefix(lower, kwSelect) \/ HasPrefix(lower, kwWith)) THEN query
          ELSE IF hasLimitPattern(lower) THEN query
          ELSE TrimSpace(query) \o txtLimitClause \o Itoa(limit) \o txtSemicolon

\* Mutant: an existing limit is not looked for.
ensureLimit_NoLimitCheck(query, limit) ==
  IF limit <= 0 THEN query
  ELSE LET lower == cleanedLower(query)
       IN IF ~(HasPrefix(lower, kwSelect) \/ HasPrefix(lower, kwWith)) THEN query
          ELSE TrimSuffix(TrimSpace(query), txtSemicolon) \o txtLimitClause \o Itoa(limit) \o txtSemicolon

ensureLimit(query, limit) ==
  IF limit <= 0 THEN query
  ELSE LET lower == cleanedLower(query)
       IN IF ~(HasPrefix(lower, kwSelect) \/ HasPrefix(lower, kwWith)) THEN query
          ELSE IF hasLimitPattern(lower) THEN query
          ELSE TrimSuffix(TrimSpace(query), txtSemicolon) \o txtLimitClause \o Itoa(limit) \o txtSemicolon

(***************************************************************************)
(* normalizeSQL: the LLM's reply without its code fence and "sql:" label.  *)
(***************************************************************************)
\* The backquote character (written as a name: the character itself cannot
\* stand in a string of this module).
chBackquote == "BACKQUOTE"
txtFence == <<chBackquote, chBackquote, chBackquote>>
txtSqlLabel == <<"s","q","l",":">>

\* Length of the longest run of word characters of s that starts at i.
RECURSIVE WordRun(_, _)
WordRun(s, i) ==
  IF i <= Len(s) /\ IsWordChar(s[i]) THEN 1 + WordRun(s, i + 1) ELSE 0

\* codeFencePattern matches q: (?s)^FENCE(?:\w+)?\s*(.*?)\s*FENCE$, where
\* FENCE is three backquotes.
codeFenceMatches(q) ==
  /\ Len(q) >= 2 * Len(txtFence)
  /\ HasPrefix(q, txtFence)
  /\ HasSuffix(q, txtFence)

\* The pattern's one group, trimmed: what lies between the opening fence,
\* with the word that follows it, and the closing fence.
codeFenceBody(q) ==
  TrimSpace(SubSeq(q, Len(txtFence) + WordRun(q, Len(txtFence) + 1) + 1, Len(q) - Len(txtFence)))

normalizeSQL(sqlQuery) ==
  LET q0 == TrimSpace(sqlQuery)
      q1 == IF codeFenceMatches(q0) THEN codeFenceBody(q0) ELSE q0
      q2 == IF HasPrefix(ToLower(q1), txtSqlLabel)
              THEN TrimSpace(SubSeq(q1, Len(txtSqlLabel) + 1, Len(q1)))
              ELSE q1
  IN TrimSpace(q2)

(***************************************************************************)
(* State.                                                                  *)
(***************************************************************************)
VARIABLES
  \* Safety-guard calls: the position, the arguments and the results.
  gPc, gQuery, gLimit, gErr, gOut, gOut2,
  \* A run of dbquery in query or chat mode.
  cfg,          \* Config: the flags the pipeline reads
  pc,           \* position in runSingleQuery / runChat / processNaturalLanguageQuery
  dbOpen,       \* the connection returned by openDatabase is open
  schemaBuilt,  \* number of buildSchemaContext calls that returned a context
  turn,         \* number of processNaturalLanguageQuery calls started
  raw,          \* generateSQL's reply
  sqlQuery,     \* processNaturalLanguageQuery's sqlQuery
  guard,        \* "none", "skipped", "accepted" or "rejected" for this call
  checked,      \* the texts given to ensureReadOnlySQL in this call
  executed,     \* the statements given to executeQuery in this call
  rows,         \* len(rows) of executeQuery's result
  entry,        \* the HistoryEntry being built
  appended,     \* the entries this call appended to the history file
  histErr,      \* the error of this call's appendHistoryEntry
  histLen,      \* number of entries in the history file
  rendered,     \* renderOutput returned text in this call
  fileWritten,  \* the output file was written in this call
  printed,      \* the rendering was printed in this call
  callErr,      \* error returned by processNaturalLanguageQuery
  ret,          \* error returned by runSingleQuery / runChat
  \* A call of buildSchemaContext / introspectSchema.
  iDialect,     \* dbType
  iScope,       \* tableScope
  iMaxTables,   \* maxTables
  iCatalog,     \* the rows the table-list query returns, in its order
  iPc,          \* position in the call
  iIdx,         \* rows read from the table list (sqlite probe loop: names done)
  iTableNames,  \* introspectSQLite's tableNames
  iOut,         \* out, the descriptors accumulated
  iProbed,      \* table names a column lookup was issued for
  iOpen,        \* result cursors open
  iTables,      \* descriptors returned by introspectSchema
  iErr,         \* error returned by introspectSchema
  iCtxText,     \* text returned by buildSchemaContext, as lines
  iCtxErr,      \* error returned by buildSchemaContext
  \* A call of executeQuery.
  xDriverCols,  \* the column names rows.Columns() yields
  xDriverRows,  \* the rows the driver holds for the query, each a list of cells
  xPc,          \* position in the call
  xIdx,         \* rows read from the cursor
  xColumns,     \* columns
  xResult,      \* result
  xOpen,        \* the cursor rows is open
  xRetCols,     \* first return value
  xRetRows,     \* second return value
  xErr,         \* third return value
  \* A call of normalizeDBValue.
  nPc, nIn, nOut,
  \* A call of renderOutput.
  rPc,          \* position in the call
  rFormat,      \* format
  rColumns,     \* columns
  rRows,        \* rows
  rText,        \* the text returned
  rErr,         \* the error returned
  \* A call of runReset.
  tTarget,      \* cfg.ResetTarget
  tYes,         \* cfg.Yes
  tDryRun,      \* cfg.DryRun
  tStart,       \* the files of the reset items when runReset is called
  tFiles,       \* the files of the reset items now
  tPc,          \* position in the call
  tIdx,         \* items handled by the loop
  tRemoved,     \* removed
  tMissing,     \* missing
  tWouldRemove, \* wouldRemove
  tOut,         \* the lines printed to standard output
  tErr,         \* the error returned
  \* A call of stripLeadingComments, one loop iteration at a time.
  cPc,          \* position in the call
  cIn,          \* sqlText
  cText,        \* s
  cOut          \* the text returned

guardVars == <<gPc, gQuery, gLimit, gErr, gOut, gOut2>>

callVars == <<raw, sqlQuery, guard, checked, executed, rows, entry, appended, histErr,
              rendered, fileWritten, printed, callErr>>

pipeVars == <<cfg, pc, dbOpen, schemaBuilt, turn, histLen, ret, callVars>>

introVars == <<iDialect, iScope, iMaxTables, iCatalog, iPc, iIdx, iTableNames, iOut,
               iProbed, iOpen, iTables, iErr, iCtxText, iCtxErr>>

execVars == <<xDriverCols, xDriverRows, xPc, xIdx, xColumns, xResult, xOpen,
              xRetCols, xRetRows, xErr>>

normVars == <<nPc, nIn, nOut>>

renderVars == <<rPc, rFormat, rColumns, rRows, rText, rErr>>

resetVars == <<tTarget, tYes, tDryRun, tStart, tFiles, tPc, tIdx, tRemoved, tMissing,
               tWouldRemove, tOut, tErr>>

stripVars == <<cPc, cIn, cText, cOut>>

extraVars == <<resetVars, stripVars>>

dataVars == <<execVars, normVars, renderVars, extraVars>>

vars == <<guardVars, pipeVars, introVars, dataVars>>

(***************************************************************************)
(* SQL texts given to the guard: every concatenation of at most MaxFrags   *)
(* of these fragments.                                                     *)
(***************************************************************************)
Frags ==
  << kwSelect,
     <<"W","I","T","H">>,
     kwExplainSelect,
     <<"u","p","d","a","t","e">>,
     <<" ">>,
     txtSemicolon,
     <<"l","i","m","i","t"," ","5">>,
     <<"x">>,
     txtLineComment,
     txtNewline,
     txtBlockOpen,
     txtBlockClose,
     <<"/","*"," ","u","p","d","a","t","e"," ","l","i","m","i","t"," ","5"," ","*","/">>,
     <<"/","*","/"," ","x"," ","*","/">> >>

RECURSIVE ConcatFrags(_)
ConcatFrags(fs) ==
  IF fs = <<>> THEN <<>> ELSE Frags[Head(fs)] \o ConcatFrags(Tail(fs))

GuardInputs ==
  { ConcatFrags(fs) : fs \in UNION { [1..k -> DOMAIN Frags] : k \in 0..MaxFrags } }

\* Limits given to ensureLimit: ensureLimit itself accepts any int.
GuardLimits == {-1, 0, 10}

(***************************************************************************)
(* The run of dbquery: configuration, replies of the language model and    *)
(* the values no call is in progress with.                                 *)
(***************************************************************************)
\* parseQueryConfig's default for --limit; a configured limit is > 0.
DefaultLimit == 10

Configs ==
  [ Mode : {"query", "chat"},
    HasNLQuery : BOOLEAN,
    AllowWrite : BOOLEAN,
    NoAutoLimit : BOOLEAN,
    DryRun : BOOLEAN,
    NoHistory : BOOLEAN,
    HasOutputFile : BOOLEAN,
    Limit : {DefaultLimit} ]

\* Replies of the language model: untrusted text.
LLMReplies ==
  { kwSelect,
    kwExplainSelect,
    <<"u","p","d","a","t","e">>,
    kwSelect \o <<" ">> \o kwLimit \o <<" ","5">>,
    <<"/","*"," ","u","p","d","a","t","e"," ","l","i","m","i","t"," ","5"," ","*","/">> \o kwSelect,
    <<"W","I","T","H"," ","u","p","d","a","t","e">>,
    <<>>,
    <<" ","\n">>,
    txtFence \o <<"s","q","l","\n">> \o kwSelect \o <<";","\n">> \o txtFence,
    txtFence \o kwSelect \o <<" ","u","p","d","a","t","e">> \o txtFence,
    <<"S","Q","L",":"," ">> \o kwExplainSelect \o <<";">> }

EmptyEntry == [SQL |-> <<>>, Rows |-> 0, Error |-> ""]

CallIdle ==
  /\ raw = <<>>
  /\ sqlQuery = <<>>
  /\ guard = "none"
  /\ checked = <<>>
  /\ executed = <<>>
  /\ rows = 0
  /\ entry = EmptyEntry
  /\ appended = <<>>
  /\ histErr = NoErr
  /\ rendered = FALSE
  /\ fileWritten = FALSE
  /\ printed = FALSE
  /\ callErr = NoErr

PipeIdle ==
  /\ cfg = [Mode |-> "idle"]
  /\ pc = "idle"
  /\ dbOpen = FALSE
  /\ schemaBuilt = 0
  /\ turn = 0
  /\ histLen = 0
  /\ ret = NoErr
  /\ CallIdle

IntroIdle ==
  /\ iDialect = "idle"
  /\ iScope = <<>>
  /\ iMaxTables = 0
  /\ iCatalog = <<>>
  /\ iPc = "idle"
  /\ iIdx = 0
  /\ iTableNames = <<>>
  /\ iOut = <<>>
  /\ iProbed = <<>>
  /\ iOpen = {}
  /\ iTables = <<>>
  /\ iErr = NoErr
  /\ iCtxText = <<>>
  /\ iCtxErr = NoErr

ExecIdle ==
  /\ xDriverCols = <<>>
  /\ xDriverRows = <<>>
  /\ xPc = "idle"
  /\ xIdx = 0
  /\ xColumns = <<>>
  /\ xResult = <<>>
  /\ xOpen = FALSE
  /\ xRetCols = <<>>
  /\ xRetRows = <<>>
  /\ xErr = NoErr

NormIdle ==
  /\ nPc = "idle"
  /\ nIn = "none"
  /\ nOut = "none"

RenderIdle ==
  /\ rPc = "idle"
  /\ rFormat = "idle"
  /\ rColumns = <<>>
  /\ rRows = <<>>
  /\ rText = <<>>
  /\ rErr = NoErr

ResetIdle ==
  /\ tTarget = "idle"
  /\ tYes = FALSE
  /\ tDryRun = FALSE
  /\ tStart = <<>>
  /\ tFiles = <<>>
  /\ tPc = "idle"
  /\ tIdx = 0
  /\ tRemoved = <<>>
  /\ tMissing = <<>>
  /\ tWouldRemove = <<>>
  /\ tOut = <<>>
  /\ tErr = NoErr

StripIdle ==
  /\ cPc = "idle"
  /\ cIn = <<>>
  /\ cText = <<>>
  /\ cOut = <<>>

ExtraIdle == ResetIdle /\ StripIdle

DataIdle == ExecIdle /\ NormIdle /\ RenderIdle /\ ExtraIdle

(***************************************************************************)
(* Specification of the safety guard's functions on bounded inputs.        *)
(***************************************************************************)
GuardIdle ==
  /\ gPc = "idle"
  /\ gQuery = <<>>
  /\ gLimit = 0
  /\ gErr = NoErr
  /\ gOut = <<>>
  /\ gOut2 = <<>>

InitGuard ==
  /\ gPc = "input"
  /\ gQuery \in GuardInputs
  /\ gLimit = 0
  /\ gErr = NoErr
  /\ gOut = <<>>
  /\ gOut2 = <<>>
  /\ PipeIdle
  /\ IntroIdle
  /\ DataIdle

\* A call ensureReadOnlySQL(gQuery).
CallEnsureReadOnlySQL ==
  /\ gPc = "input"
  /\ gErr' = ensureReadOnlySQL(gQuery)
  /\ gPc' = "readonly"
  /\ UNCHANGED <<gQuery, gLimit, gOut, gOut2, pipeVars, introVars, dataVars>>

\* A call ensureLimit(gQuery, limit).
CallEnsureLimit ==
  /\ gPc = "input"
  /\ \E limit \in GuardLimits :
       /\ gLimit' = limit
       /\ gOut' = ensureLimit(gQuery, limit)
  /\ gPc' = "limit"
  /\ UNCHANGED <<gQuery, gErr, gOut2, pipeVars, introVars, dataVars>>

\* A second call of ensureLimit, on the first call's result.
CallEnsureLimitAgain ==
  /\ gPc = "limit"
  /\ gOut2' = ensureLimit(gOut, gLimit)
  /\ gPc' = "relimit"
  /\ UNCHANGED <<gQuery, gLimit, gErr, gOut, pipeVars, introVars, dataVars>>

\* The guard applied to the result of ensureLimit, the text that is executed.
CallEnsureReadOnlySQLOnLimited ==
  /\ gPc = "limit"
  /\ gErr' = ensureReadOnlySQL(gOut)
  /\ gPc' = "reguard"
  /\ UNCHANGED <<gQuery, gLimit, gOut, gOut2, pipeVars, introVars, dataVars>>

NextGuard ==
  \/ CallEnsureReadOnlySQL
  \/ CallEnsureLimit
  \/ CallEnsureLimitAgain
  \/ CallEnsureReadOnlySQLOnLimited

SpecGuard == InitGuard /\ [][NextGuard]_vars

(***************************************************************************)
(* Specification of a run: runSingleQuery or runChat, and inside them      *)
(* processNaturalLanguageQuery step by step.                               *)
(***************************************************************************)
ErrOpenDatabase == "open database: driver error"
ErrBuildSchema == "build schema context: introspection error"
ErrScanner == "scanner error"
ErrLLM == "LLM request failed"
ErrGenerate == "generate SQL with LLM: LLM request failed"
ErrEmptySQL == "LLM returned an empty SQL query"
ErrDriver == "driver error"
ErrExecute == "execute SQL query: driver error"
ErrRender == "marshal json output: unsupported value"
ErrWriteFile == "permission denied"
ErrOutputFile == "write output file: permission denied"
ErrAppendHistory == "open history file: permission denied"

Init ==
  /\ cfg \in Configs
  /\ pc = "start"
  /\ dbOpen = FALSE
  /\ schemaBuilt = 0
  /\ turn = 0
  /\ histLen = 0
  /\ ret = NoErr
  /\ CallIdle
  /\ GuardIdle
  /\ IntroIdle
  /\ DataIdle

\* Mutant: a call that ends in an error is not recorded.
recordHistoryBestEffort_SuccessOnly(e, ok) ==
  IF cfg.NoHistory \/ cfg.Mode = "history" \/ e.Error # ""
    THEN UNCHANGED <<histLen, appended, histErr>>
  ELSE IF ~ok
    THEN /\ histErr' = ErrAppendHistory
         /\ UNCHANGED <<histLen, appended>>
  ELSE /\ histLen' = histLen + 1
       /\ appended' = Append(appended, e)
       /\ histErr' = histErr

\* recordHistoryBestEffort: nothing with --no-history; otherwise one entry
\* is appended to the history file when the write succeeds (ok), and a
\* failed write is at most reported.
recordHistoryBestEffort(e, ok) ==
  IF cfg.NoHistory \/ cfg.Mode = "history"
    THEN UNCHANGED <<histLen, appended, histErr>>
  ELSE IF ~ok
    THEN /\ histErr' = ErrAppendHistory
         /\ UNCHANGED <<histLen, appended>>
  ELSE /\ histLen' = histLen + 1
       /\ appended' = Append(appended, e)
       /\ histErr' = histErr

\* Mutant: a failed history write is returned in place of the call's outcome.
ReturnEntry_HistoryErrorWins(e, err) ==
  /\ entry' = e
  /\ pc' = "returned"
  /\ \E ok \in BOOLEAN :
       /\ recordHistoryBestEffort(e, ok)
       /\ callErr' = IF histErr' # NoErr THEN histErr' ELSE err

\* An exit of processNaturalLanguageQuery: the entry is recorded, then the
\* entry and err are returned.
ReturnEntry(e, err) ==
  /\ entry' = e
  /\ callErr' = err
  /\ pc' = "returned"
  /\ \E ok \in BOOLEAN : recordHistoryBestEffort(e, ok)

\* runSingleQuery without a query: nothing is opened or executed.
SkipEmptyQuery ==
  /\ pc = "start"
  /\ cfg.Mode = "query"
  /\ ~cfg.HasNLQuery
  /\ pc' = "exit"
  /\ ret' = NoErr
  /\ UNCHANGED <<cfg, dbOpen, schemaBuilt, turn, histLen, callVars, guardVars, introVars, dataVars>>

\* openDatabase, at the start of runSingleQuery and of runChat.
OpenDatabase ==
  /\ pc = "start"
  /\ cfg.Mode = "chat" \/ cfg.HasNLQuery
  /\ \E ok \in BOOLEAN :
       IF ok
         THEN /\ dbOpen' = TRUE
              /\ pc' = "schema"
              /\ ret' = ret
         ELSE /\ dbOpen' = FALSE
              /\ pc' = "exit"
              /\ ret' = ErrOpenDatabase
  /\ UNCHANGED <<cfg, schemaBuilt, turn, histLen, callVars, guardVars, introVars, dataVars>>

\* buildSchemaContext; on failure the run returns and the deferred
\* db.Close() runs.
BuildSchemaContext ==
  /\ pc = "schema"
  /\ \E ok \in BOOLEAN :
       IF ok
         THEN /\ schemaBuilt' = schemaBuilt + 1
              /\ pc' = IF cfg.Mode = "query" \/ cfg.HasNLQuery THEN "process" ELSE "prompt"
              /\ UNCHANGED <<dbOpen, ret>>
         ELSE /\ schemaBuilt' = schemaBuilt
              /\ dbOpen' = FALSE
              /\ pc' = "exit"
              /\ ret' = ErrBuildSchema
  /\ UNCHANGED <<cfg, turn, histLen, callVars, guardVars, introVars, dataVars>>

\* runChat's loop: one line is read from the input.
ChatInputs == {"eof", "readerr", "blank", ":exit", ":quit", ":help", "text"}

ReadLine ==
  /\ pc = "prompt"
  /\ \E input \in ChatInputs :
       CASE input \in {"eof", ":exit", ":quit"} ->
              /\ pc' = "exit"
              /\ dbOpen' = FALSE
              /\ ret' = NoErr
         [] input = "readerr" ->
              /\ pc' = "exit"
              /\ dbOpen' = FALSE
              /\ ret' = ErrScanner
         [] input \in {"blank", ":help"} ->
              UNCHANGED <<pc, dbOpen, ret>>
         [] input = "text" ->
              /\ turn < MaxTurns
              /\ pc' = "process"
              /\ UNCHANGED <<dbOpen, ret>>
  /\ UNCHANGED <<cfg, schemaBuilt, turn, histLen, callVars, guardVars, introVars, dataVars>>

\* processNaturalLanguageQuery begins: generateSQL.
GenerateSQL ==
  /\ pc = "process"
  /\ turn' = turn + 1
  /\ \E reply \in {[ok |-> FALSE, text |-> <<>>]} \cup {[ok |-> TRUE, text |-> r] : r \in LLMReplies} :
       IF reply.ok
         THEN /\ raw' = reply.text
              /\ pc' = "normalize"
              /\ UNCHANGED <<entry, callErr, histLen, appended, histErr>>
         ELSE /\ raw' = raw
              /\ ReturnEntry([entry EXCEPT !.Error = ErrLLM], ErrGenerate)
  /\ UNCHANGED <<cfg, dbOpen, schemaBuilt, ret, sqlQuery, guard, checked, executed, rows,
                 rendered, fileWritten, printed, guardVars, introVars, dataVars>>

\* normalizeSQL and the test for an empty query.
NormalizeSQL ==
  /\ pc = "normalize"
  /\ sqlQuery' = normalizeSQL(raw)
  /\ IF sqlQuery' = <<>>
       THEN ReturnEntry([entry EXCEPT !.Error = ErrEmptySQL], ErrEmptySQL)
       ELSE /\ pc' = "guard"
            /\ UNCHANGED <<entry, callErr, histLen, appended, histErr>>
  /\ UNCHANGED <<cfg, dbOpen, schemaBuilt, turn, ret, raw, guard, checked, executed, rows,
                 rendered, fileWritten, printed, guardVars, introVars, dataVars>>

\* Mutant: the guard's verdict is computed but the call goes on.
GuardSQL_IgnoreVerdict ==
  /\ pc = "guard"
  /\ IF ~cfg.AllowWrite
       THEN /\ checked' = Append(checked, sqlQuery)
            /\ guard' = IF ensureReadOnlySQL(sqlQuery) # NoErr THEN "rejected" ELSE "accepted"
       ELSE /\ guard' = "skipped"
            /\ checked' = checked
  /\ pc' = "limit"
  /\ UNCHANGED <<entry, callErr, histLen, appended, histErr>>
  /\ UNCHANGED <<cfg, dbOpen, schemaBuilt, turn, ret, raw, sqlQuery, executed, rows,
                 rendered, fileWritten, printed, guardVars, introVars, dataVars>>

\* Mutant: the rejected statement is left out of the recorded entry.
GuardSQL_EntryWithoutSQL ==
  /\ pc = "guard"
  /\ IF ~cfg.AllowWrite
       THEN /\ checked' = Append(checked, sqlQuery)
            /\ LET err == ensureReadOnlySQL(sqlQuery)
               IN IF err # NoErr
                    THEN /\ guard' = "rejected"
                         /\ ReturnEntry([entry EXCEPT !.Error = err], err)
                    ELSE /\ guard' = "accepted"
                         /\ pc' = "limit"
                         /\ UNCHANGED <<entry, callErr, histLen, appended, histErr>>
       ELSE /\ guard' = "skipped"
            /\ pc' = "limit"
            /\ UNCHANGED <<checked, entry, callErr, histLen, appended, histErr>>
  /\ UNCHANGED <<cfg, dbOpen, schemaBuilt, turn, ret, raw, sqlQuery, executed, rows,
                 rendered, fileWritten, printed, guardVars, introVars, dataVars>>

\* The read-only guard, unless --allow-write.
GuardSQL ==
  /\ pc = "guard"
  /\ IF ~cfg.AllowWrite
       THEN /\ checked' = Append(checked, sqlQuery)
            /\ LET err == ensureReadOnlySQL(sqlQuery)
               IN IF err # NoErr
                    THEN /\ guard' = "rejected"
                         /\ ReturnEntry([entry EXCEPT !.SQL = sqlQuery, !.Error = err], err)
                    ELSE /\ guard' = "accepted"
                         /\ pc' = "limit"
                         /\ UNCHANGED <<entry, callErr, histLen, appended, histErr>>
       ELSE /\ guard' = "skipped"
            /\ pc' = "limit"
            /\ UNCHANGED <<checked, entry, callErr, histLen, appended, histErr>>
  /\ UNCHANGED <<cfg, dbOpen, schemaBuilt, turn, ret, raw, sqlQuery, executed, rows,
                 rendered, fileWritten, printed, guardVars, introVars, dataVars>>

\* Mutant: the --no-auto-limit flag is read the wrong way round.
LimitSQL_Inverted ==
  /\ pc = "limit"
  /\ sqlQuery' = IF cfg.NoAutoLimit THEN ensureLimit(sqlQuery, cfg.Limit) ELSE sqlQuery
  /\ IF cfg.DryRun
       THEN ReturnEntry([entry EXCEPT !.SQL = sqlQuery'], NoErr)
       ELSE /\ entry' = [entry EXCEPT !.SQL = sqlQuery']
            /\ pc' = "execute"
            /\ UNCHANGED <<callErr, histLen, appended, histErr>>
  /\ UNCHANGED <<cfg, dbOpen, schemaBuilt, turn, ret, raw, guard, checked, executed, rows,
                 rendered, fileWritten, printed, guardVars, introVars, dataVars>>

\* Mutant: --dry-run is not looked at; the statement goes on to be executed.
LimitSQL_IgnoreDryRun ==
  /\ pc = "limit"
  /\ sqlQuery' = IF ~cfg.NoAutoLimit THEN ensureLimit(sqlQuery, cfg.Limit) ELSE sqlQuery
  /\ entry' = [entry EXCEPT !.SQL = sqlQuery']
  /\ pc' = "execute"
  /\ UNCHANGED <<callErr, histLen, appended, histErr>>
  /\ UNCHANGED <<cfg, dbOpen, schemaBuilt, turn, ret, raw, guard, checked, executed, rows,
                 rendered, fileWritten, printed, guardVars, introVars, dataVars>>

\* Limit injection unless --no-auto-limit, then the --dry-run exit.
LimitSQL ==
  /\ pc = "limit"
  /\ sqlQuery' = IF ~cfg.NoAutoLimit THEN ensureLimit(sqlQuery, cfg.Limit) ELSE sqlQuery
  /\ IF cfg.DryRun
       THEN ReturnEntry([entry EXCEPT !.SQL = sqlQuery'], NoErr)
       ELSE /\ entry' = [entry EXCEPT !.SQL = sqlQuery']
            /\ pc' = "execute"
            /\ UNCHANGED <<callErr, histLen, appended, histErr>>
  /\ UNCHANGED <<cfg, dbOpen, schemaBuilt, turn, ret, raw, guard, checked, executed, rows,
                 rendered, fileWritten, printed, guardVars, introVars, dataVars>>

\* executeQuery(ctx, db, sqlQuery): an error, or a result of n rows.
ExecuteQuery ==
  /\ pc = "execute"
  /\ executed' = Append(executed, sqlQuery)
  /\ \E res \in {-1} \cup (0..MaxRows) :
       IF res < 0
         THEN /\ rows' = rows
              /\ ReturnEntry([entry EXCEPT !.Error = ErrDriver], ErrExecute)
         ELSE /\ rows' = res
              /\ pc' = "render"
              /\ UNCHANGED <<entry, callErr, histLen, appended, histErr>>
  /\ UNCHANGED <<cfg, dbOpen, schemaBuilt, turn, ret, raw, sqlQuery, guard, checked,
                 rendered, fileWritten, printed, guardVars, introVars, dataVars>>

\* renderOutput(cfg.Output, columns, rows): text, or an error.
RenderOutput ==
  /\ pc = "render"
  /\ \E ok \in BOOLEAN :
       IF ok
         THEN /\ rendered' = TRUE
              /\ pc' = "write"
              /\ UNCHANGED <<entry, callErr, histLen, appended, histErr>>
         ELSE /\ rendered' = rendered
              /\ ReturnEntry([entry EXCEPT !.Error = ErrRender], ErrRender)
  /\ UNCHANGED <<cfg, dbOpen, schemaBuilt, turn, ret, raw, sqlQuery, guard, checked, executed,
                 rows, fileWritten, printed, guardVars, introVars, dataVars>>

\* os.WriteFile(cfg.OutputFile, ...) when an output file is configured.
WriteOutputFile ==
  /\ pc = "write"
  /\ IF cfg.HasOutputFile
       THEN \E ok \in BOOLEAN :
              IF ok
                THEN /\ fileWritten' = TRUE
                     /\ pc' = "print"
                     /\ UNCHANGED <<entry, callErr, histLen, appended, histErr>>
                ELSE /\ fileWritten' = fileWritten
                     /\ ReturnEntry([entry EXCEPT !.Error = ErrWriteFile], ErrOutputFile)
       ELSE /\ pc' = "print"
            /\ UNCHANGED <<fileWritten, entry, callErr, histLen, appended, histErr>>
  /\ UNCHANGED <<cfg, dbOpen, schemaBuilt, turn, ret, raw, sqlQuery, guard, checked, executed,
                 rows, rendered, printed, guardVars, introVars, dataVars>>

\* Mutant: the row count is not put into the entry.
PrintAndRecord_NoRowCount ==
  /\ pc = "print"
  /\ printed' = TRUE
  /\ ReturnEntry(entry, NoErr)
  /\ UNCHANGED <<cfg, dbOpen, schemaBuilt, turn, ret, raw, sqlQuery, guard, checked, executed,
                 rows, rendered, fileWritten, guardVars, introVars, dataVars>>

\* The rendering is printed and the successful call recorded.
PrintAndRecord ==
  /\ pc = "print"
  /\ printed' = TRUE
  /\ ReturnEntry([entry EXCEPT !.Rows = rows], NoErr)
  /\ UNCHANGED <<cfg, dbOpen, schemaBuilt, turn, ret, raw, sqlQuery, guard, checked, executed,
                 rows, rendered, fileWritten, guardVars, introVars, dataVars>>

\* The finished call's locals go out of scope.
CallReset ==
  /\ raw' = <<>>
  /\ sqlQuery' = <<>>
  /\ guard' = "none"
  /\ checked' = <<>>
  /\ executed' = <<>>
  /\ rows' = 0
  /\ entry' = EmptyEntry
  /\ appended' = <<>>
  /\ histErr' = NoErr
  /\ rendered' = FALSE
  /\ fileWritten' = FALSE
  /\ printed' = FALSE
  /\ callErr' = NoErr

\* Mutant: a turn that failed ends the chat session with its error.
ReturnToCaller_ErrorEndsChat ==
  /\ pc = "returned"
  /\ IF cfg.Mode = "query" \/ callErr # NoErr
       THEN /\ pc' = "exit"
            /\ dbOpen' = FALSE
            /\ ret' = callErr
            /\ UNCHANGED callVars
       ELSE /\ pc' = "prompt"
            /\ UNCHANGED <<dbOpen, ret>>
            /\ CallReset
  /\ UNCHANGED <<cfg, schemaBuilt, turn, histLen, guardVars, introVars, dataVars>>

\* Mutant: after a turn the chat loop introspects the schema again.
ReturnToCaller_RebuildSchema ==
  /\ pc = "returned"
  /\ IF cfg.Mode = "query"
       THEN /\ pc' = "exit"
            /\ dbOpen' = FALSE
            /\ ret' = callErr
            /\ UNCHANGED callVars
       ELSE /\ pc' = "schema"
            /\ UNCHANGED <<dbOpen, ret>>
            /\ CallReset
  /\ UNCHANGED <<cfg, schemaBuilt, turn, histLen, guardVars, introVars, dataVars>>

\* processNaturalLanguageQuery has returned: runSingleQuery returns its
\* error and closes the connection; runChat reports it and goes on to read
\* the next line, the call's locals being gone.
ReturnToCaller ==
  /\ pc = "returned"
  /\ IF cfg.Mode = "query"
       THEN /\ pc' = "exit"
            /\ dbOpen' = FALSE
            /\ ret' = callErr
            /\ UNCHANGED callVars
       ELSE /\ pc' = "prompt"
            /\ UNCHANGED <<dbOpen, ret>>
            /\ CallReset
  /\ UNCHANGED <<cfg, schemaBuilt, turn, histLen, guardVars, introVars, dataVars>>

Next ==
  \/ SkipEmptyQuery
  \/ OpenDatabase
  \/ BuildSchemaContext
  \/ ReadLine
  \/ GenerateSQL
  \/ NormalizeSQL
  \/ GuardSQL
  \/ LimitSQL
  \/ ExecuteQuery
  \/ RenderOutput
  \/ WriteOutputFile
  \/ PrintAndRecord
  \/ ReturnToCaller

Spec == Init /\ [][Next]_vars

(***************************************************************************)
(* schema.go: the table filter.                                            *)
(***************************************************************************)
txtDot == <<".">>

\* makeTableFilter: the set of trimmed, lower-cased, non-empty tokens of the
\* scope; the empty set stands for the nil map.
makeTableFilter(tableScope) ==
  { ToLower(TrimSpace(tableScope[i])) : i \in DOMAIN tableScope } \ {<<>>}

\* The last element of strings.Split(n, "."): what follows the last dot.
RECURSIVE LastPart(_)
LastPart(n) ==
  LET idx == Index(n, txtDot)
  IN IF idx = 0 THEN n ELSE LastPart(SubSeq(n, idx + 1, Len(n)))

\* Mutant: a qualified name is matched by its full name only.
allowTableName_FullNameOnly(name, filter) ==
  IF filter = {} THEN TRUE
  ELSE ToLower(TrimSpace(name)) \in filter

allowTableName(name, filter) ==
  IF filter = {} THEN TRUE
  ELSE LET n == ToLower(TrimSpace(name))
       IN IF n \in filter THEN TRUE
          ELSE IF Index(n, txtDot) # 0 /\ LastPart(n) \in filter THEN TRUE
          ELSE FALSE

(***************************************************************************)
(* Databases and arguments of introspection.                               *)
(***************************************************************************)
txtUsers == <<"u","s","e","r","s">>
txtOrders == <<"O","r","d","e","r","s">>
txtPublic == <<"p","u","b","l","i","c">>
txtApp == <<"a","p","p">>
colId == [name |-> <<"i","d">>, type |-> <<"I","N","T">>]
colEmail == [name |-> <<"e","m","a","i","l">>, type |-> <<>>]
colTotal == [name |-> <<"t","o","t","a","l">>, type |-> <<"R","E","A","L">>]

Dialects == {"sqlite", "postgres", "mysql", "oracle"}

\* The tables a database may hold, in the order of the table-list query,
\* each with the rows of its column lookup.
TablePool(dialect) ==
  IF dialect = "postgres"
    THEN << [schema |-> txtApp, table |-> txtUsers, cols |-> <<colId>>],
            [schema |-> txtPublic, table |-> txtOrders, cols |-> <<colId, colTotal>>],
            [schema |-> txtPublic, table |-> txtUsers, cols |-> <<colId, colEmail>>] >>
    ELSE << [schema |-> <<>>, table |-> <<" ">> \o txtUsers, cols |-> <<colEmail>>],
            [schema |-> <<>>, table |-> txtOrders, cols |-> <<colId, colTotal>>],
            [schema |-> <<>>, table |-> <<"a",".">> \o txtUsers, cols |-> <<colId>>],
            [schema |-> <<>>, table |-> txtUsers, cols |-> <<colId, colEmail>>] >>

\* The subsequence of pool that keeps the positions in keep.
RECURSIVE SubPool(_, _)
SubPool(pool, keep) ==
  IF pool = <<>> THEN <<>>
  ELSE LET rest == SubPool(SubSeq(pool, 1, Len(pool) - 1), keep)
       IN IF Len(pool) \in keep THEN Append(rest, pool[Len(pool)]) ELSE rest

Catalogs(dialect) ==
  { SubPool(TablePool(dialect), keep) : keep \in SUBSET (DOMAIN TablePool(dialect)) }

Scopes ==
  { <<>>,
    << <<"U","s","e","r","s">> >>,
    << txtPublic \o txtDot \o txtUsers >>,
    << <<"o","r","d","e","r","s">>, <<" ">> \o txtUsers >>,
    << <<"a",".">> \o txtUsers >>,
    << <<" ">> >> }

\* The table name a dialect filters on and reports.
FullName(dialect, row) ==
  IF dialect = "postgres" THEN row.schema \o txtDot \o row.table ELSE row.table

\* One column's descriptor: strings.TrimSpace(name + " " + type).
ColumnDesc(col) == TrimSpace(col.name \o <<" ">> \o col.type)

ColumnDescs(cols) == [i \in DOMAIN cols |-> ColumnDesc(cols[i])]

ErrUnsupportedDBType == "unsupported db type"
ErrReadSchemaFile == "read --schema-file: no such file"
txtSchemaHeader == "Discovered schema:"
txtNoTables == "(no tables discovered)"
txtExtraHeader == "Extra schema context from file:"

(***************************************************************************)
(* Specification of introspection: buildSchemaContext, introspectSchema    *)
(* and the three dialects, one action per database round trip.             *)
(***************************************************************************)
InitIntrospect ==
  /\ iDialect \in Dialects
  /\ iScope \in Scopes
  /\ iMaxTables \in 1..MaxTablesCap
  /\ iCatalog \in Catalogs(iDialect)
  /\ iPc = "start"
  /\ iIdx = 0
  /\ iTableNames = <<>>
  /\ iOut = <<>>
  /\ iProbed = <<>>
  /\ iOpen = {}
  /\ iTables = <<>>
  /\ iErr = NoErr
  /\ iCtxText = <<>>
  /\ iCtxErr = NoErr
  /\ GuardIdle
  /\ PipeIdle
  /\ DataIdle

IntroArgs == <<iDialect, iScope, iMaxTables, iCatalog>>

\* Mutant: the cap is tested one descriptor late.
CapReached_OffByOne(out, maxTables) == Len(out) > maxTables

\* The test that ends the enumeration: len(out) >= maxTables.
CapReached(out, maxTables) == Len(out) >= maxTables

\* Mutant: a failure hands back the descriptors built so far.
IntroReturn_KeepPartial(tables, err) ==
  /\ iTables' = IF err # NoErr THEN iOut ELSE tables
  /\ iErr' = err
  /\ iPc' = "returned"

\* introspectSchema returns (tables, err) to buildSchemaContext.
IntroReturn(tables, err) ==
  /\ iTables' = tables
  /\ iErr' = err
  /\ iPc' = "returned"

\* introspectSchema's default case.
UnsupportedDialect ==
  /\ iPc = "start"
  /\ iDialect \notin {"sqlite", "postgres", "mysql"}
  /\ IntroReturn(<<>>, ErrUnsupportedDBType)
  /\ UNCHANGED <<IntroArgs, iIdx, iTableNames, iOut, iProbed, iOpen, iCtxText, iCtxErr,
                 guardVars, pipeVars, dataVars>>

\* introspectSQLite: the query on sqlite_master.
SQLiteQueryTables ==
  /\ iPc = "start"
  /\ iDialect = "sqlite"
  /\ \E ok \in BOOLEAN :
       IF ok
         THEN /\ iOpen' = {"tables"}
              /\ iPc' = "names"
              /\ UNCHANGED <<iTables, iErr>>
         ELSE /\ iOpen' = iOpen
              /\ IntroReturn(<<>>, ErrDriver)
  /\ UNCHANGED <<IntroArgs, iIdx, iTableNames, iOut, iProbed, iCtxText, iCtxErr,
                 guardVars, pipeVars, dataVars>>

\* introspectSQLite: rows.Next() gave a row; it is scanned and filtered.
SQLiteScanName ==
  /\ iPc = "names"
  /\ iDialect = "sqlite"
  /\ iIdx < Len(iCatalog)
  /\ \E ok \in BOOLEAN :
       IF ok
         THEN /\ iIdx' = iIdx + 1
              /\ iTableNames' =
                   IF allowTableName(iCatalog[iIdx + 1].table, makeTableFilter(iScope))
                     THEN Append(iTableNames, iCatalog[iIdx + 1].table)
                     ELSE iTableNames
              /\ UNCHANGED <<iOpen, iTables, iErr, iPc>>
         ELSE /\ iOpen' = iOpen \ {"tables"}
              /\ IntroReturn(<<>>, ErrDriver)
              /\ UNCHANGED <<iIdx, iTableNames>>
  /\ UNCHANGED <<IntroArgs, iOut, iProbed, iCtxText, iCtxErr, guardVars, pipeVars, dataVars>>

\* Mutant: the table-name cursor stays open while the probes run.
SQLiteEndNames_KeepCursor ==
  /\ iPc = "names"
  /\ iDialect = "sqlite"
  /\ \E outcome \in {"rowsErr", "closeErr", "ok"} :
       /\ outcome # "rowsErr" => iIdx = Len(iCatalog)
       /\ IF outcome = "ok"
            THEN /\ iPc' = "probe"
                 /\ iIdx' = 0
                 /\ UNCHANGED <<iOpen, iTables, iErr>>
            ELSE /\ IntroReturn(<<>>, ErrDriver)
                 /\ iOpen' = iOpen \ {"tables"}
                 /\ iIdx' = iIdx
  /\ UNCHANGED <<IntroArgs, iTableNames, iOut, iProbed, iCtxText, iCtxErr, guardVars, pipeVars, dataVars>>

\* introspectSQLite: rows.Next() gave false, after the last row or on an
\* iteration error; rows.Err() and rows.Close().
SQLiteEndNames ==
  /\ iPc = "names"
  /\ iDialect = "sqlite"
  /\ \E outcome \in {"rowsErr", "closeErr", "ok"} :
       /\ outcome # "rowsErr" => iIdx = Len(iCatalog)
       /\ iOpen' = iOpen \ {"tables"}
       /\ IF outcome = "ok"
            THEN /\ iPc' = "probe"
                 /\ iIdx' = 0
                 /\ UNCHANGED <<iTables, iErr>>
            ELSE /\ IntroReturn(<<>>, ErrDriver)
                 /\ iIdx' = iIdx
  /\ UNCHANGED <<IntroArgs, iTableNames, iOut, iProbed, iCtxText, iCtxErr, guardVars, pipeVars, dataVars>>

\* introspectSQLite: the zero-row probe query for the next retained name.
SQLiteProbeQuery ==
  /\ iPc = "probe"
  /\ iDialect = "sqlite"
  /\ iIdx < Len(iTableNames)
  /\ iProbed' = Append(iProbed, iTableNames[iIdx + 1])
  /\ \E ok \in BOOLEAN :
       IF ok
         THEN /\ iOpen' = iOpen \cup {"columns"}
              /\ iPc' = "columns"
              /\ UNCHANGED <<iTables, iErr>>
         ELSE /\ iOpen' = iOpen
              /\ IntroReturn(<<>>, ErrDriver)
  /\ UNCHANGED <<IntroArgs, iIdx, iTableNames, iOut, iCtxText, iCtxErr, guardVars, pipeVars, dataVars>>

\* The catalog row of the table a sqlite probe reads.
ProbedRow == CHOOSE r \in Range(iCatalog) : r.table = iTableNames[iIdx + 1]

\* introspectSQLite: Columns(), ColumnTypes() and Close() of the probe, the
\* descriptor, and the test of the cap.
SQLiteProbeColumns ==
  /\ iPc = "columns"
  /\ iDialect = "sqlite"
  /\ iOpen' = iOpen \ {"columns"}
  /\ \E outcome \in {"columnsErr", "typesErr", "closeErr", "ok"} :
       IF outcome = "ok"
         THEN /\ iOut' = Append(iOut, [Name |-> iTableNames[iIdx + 1],
                                       Columns |-> ColumnDescs(ProbedRow.cols)])
              /\ iIdx' = iIdx + 1
              /\ IF CapReached(iOut', iMaxTables)
                   THEN IntroReturn(iOut', NoErr)
                   ELSE /\ iPc' = "probe"
                        /\ UNCHANGED <<iTables, iErr>>
         ELSE /\ IntroReturn(<<>>, ErrDriver)
              /\ UNCHANGED <<iOut, iIdx>>
  /\ UNCHANGED <<IntroArgs, iTableNames, iProbed, iCtxText, iCtxErr, guardVars, pipeVars, dataVars>>

\* introspectSQLite: the probe loop ran out of names.
SQLiteReturn ==
  /\ iPc = "probe"
  /\ iDialect = "sqlite"
  /\ iIdx = Len(iTableNames)
  /\ IntroReturn(iOut, NoErr)
  /\ UNCHANGED <<IntroArgs, iIdx, iTableNames, iOut, iProbed, iOpen, iCtxText, iCtxErr,
                 guardVars, pipeVars, dataVars>>

\* introspectPostgres / introspectMySQL: the query on
\* information_schema.tables; its cursor is closed by defer on return.
CatalogQueryTables ==
  /\ iPc = "start"
  /\ iDialect \in {"postgres", "mysql"}
  /\ \E ok \in BOOLEAN :
       IF ok
         THEN /\ iOpen' = {"tables"}
              /\ iPc' = "next"
              /\ UNCHANGED <<iTables, iErr>>
         ELSE /\ iOpen' = iOpen
              /\ IntroReturn(<<>>, ErrDriver)
  /\ UNCHANGED <<IntroArgs, iIdx, iTableNames, iOut, iProbed, iCtxText, iCtxErr,
                 guardVars, pipeVars, dataVars>>

\* introspectPostgres / introspectMySQL: tableRows.Next() gave a row; it is
\* scanned and filtered.
CatalogNextTable ==
  /\ iPc = "next"
  /\ iDialect \in {"postgres", "mysql"}
  /\ iIdx < Len(iCatalog)
  /\ \E ok \in BOOLEAN :
       IF ok
         THEN /\ iIdx' = iIdx + 1
              /\ iPc' = IF allowTableName(FullName(iDialect, iCatalog[iIdx + 1]),
                                          makeTableFilter(iScope))
                          THEN "lookup" ELSE "next"
              /\ UNCHANGED <<iOpen, iTables, iErr>>
         ELSE /\ iOpen' = {}
              /\ IntroReturn(<<>>, ErrDriver)
              /\ iIdx' = iIdx
  /\ UNCHANGED <<IntroArgs, iTableNames, iOut, iProbed, iCtxText, iCtxErr, guardVars, pipeVars, dataVars>>

\* introspectPostgres / introspectMySQL: the query on
\* information_schema.columns for the row just scanned.
CatalogColumnsQuery ==
  /\ iPc = "lookup"
  /\ iDialect \in {"postgres", "mysql"}
  /\ iProbed' = Append(iProbed, FullName(iDialect, iCatalog[iIdx]))
  /\ \E ok \in BOOLEAN :
       IF ok
         THEN /\ iOpen' = iOpen \cup {"columns"}
              /\ iPc' = "columns"
              /\ UNCHANGED <<iTables, iErr>>
         ELSE /\ iOpen' = {}
              /\ IntroReturn(<<>>, ErrDriver)
  /\ UNCHANGED <<IntroArgs, iIdx, iTableNames, iOut, iCtxText, iCtxErr, guardVars, pipeVars, dataVars>>

\* introspectPostgres / introspectMySQL: the column rows are scanned, the
\* column cursor closed, the descriptor appended and the cap tested.
CatalogColumnsScan ==
  /\ iPc = "columns"
  /\ iDialect \in {"postgres", "mysql"}
  /\ \E outcome \in {"scanErr", "rowsErr", "ok"} :
       IF outcome = "ok"
         THEN /\ iOpen' = iOpen \ {"columns"}
              /\ iOut' = Append(iOut, [Name |-> FullName(iDialect, iCatalog[iIdx]),
                                       Columns |-> ColumnDescs(iCatalog[iIdx].cols)])
              /\ iPc' = IF CapReached(iOut', iMaxTables) THEN "end" ELSE "next"
              /\ UNCHANGED <<iTables, iErr>>
         ELSE /\ iOpen' = {}
              /\ IntroReturn(<<>>, ErrDriver)
              /\ iOut' = iOut
  /\ UNCHANGED <<IntroArgs, iIdx, iTableNames, iProbed, iCtxText, iCtxErr, guardVars, pipeVars, dataVars>>

\* introspectPostgres / introspectMySQL: the loop is left, by break at the
\* cap or because tableRows.Next() gave false (after the last row or on an
\* iteration error); tableRows.Err() decides the result.
CatalogEndTables ==
  /\ iPc \in {"next", "end"}
  /\ iDialect \in {"postgres", "mysql"}
  /\ \E rowsErr \in BOOLEAN :
       /\ (iPc = "next" /\ ~rowsErr) => iIdx = Len(iCatalog)
       /\ IF rowsErr THEN IntroReturn(<<>>, ErrDriver) ELSE IntroReturn(iOut, NoErr)
  /\ iOpen' = {}
  /\ UNCHANGED <<IntroArgs, iIdx, iTableNames, iOut, iProbed, iCtxText, iCtxErr,
                 guardVars, pipeVars, dataVars>>

\* The lines buildSchemaContext writes for the tables: a header, then one
\* line per table with its name and columns, or the no-tables line.
SchemaLines(tables) ==
  <<txtSchemaHeader>> \o
    (IF Len(tables) = 0 THEN <<txtNoTables>>
     ELSE [i \in DOMAIN tables |-> <<"- ", tables[i].Name, " (", tables[i].Columns, ")">>])

\* buildSchemaContext after introspectSchema returned: the text, with the
\* schema file's content when one is configured and readable.
BuildSchemaText ==
  /\ iPc = "returned"
  /\ iPc' = "done"
  /\ IF iErr # NoErr
       THEN /\ iCtxText' = <<>>
            /\ iCtxErr' = iErr
       ELSE \E file \in {"none", "ok", "unreadable"} :
              IF file = "unreadable"
                THEN /\ iCtxText' = <<>>
                     /\ iCtxErr' = ErrReadSchemaFile
                ELSE /\ iCtxText' = SchemaLines(iTables) \o
                                      (IF file = "ok" THEN <<txtExtraHeader>> ELSE <<>>)
                     /\ iCtxErr' = NoErr
  /\ UNCHANGED <<IntroArgs, iIdx, iTableNames, iOut, iProbed, iOpen, iTables, iErr,
                 guardVars, pipeVars, dataVars>>

NextIntrospect ==
  \/ UnsupportedDialect
  \/ SQLiteQueryTables
  \/ SQLiteScanName
  \/ SQLiteEndNames
  \/ SQLiteProbeQuery
  \/ SQLiteProbeColumns
  \/ SQLiteReturn
  \/ CatalogQueryTables
  \/ CatalogNextTable
  \/ CatalogColumnsQuery
  \/ CatalogColumnsScan
  \/ CatalogEndTables
  \/ BuildSchemaText

SpecIntrospect == InitIntrospect /\ [][NextIntrospect]_vars

(***************************************************************************)
(* db.go: the values of result cells.  A Go value of dynamic type any is a *)
(* record that names its type; the fields a type does not use keep their   *)
(* zero.  An integer is its sign and its decimal digits without leading    *)
(* zeros, a float its sign, the digits of its decimal mantissa without     *)
(* leading or trailing zeros and its decimal exponent (or the text inf /   *)
(* nan), a time.Time its calendar fields and zone offset in minutes.       *)
(***************************************************************************)
NoTime ==
  [year |-> 0, month |-> 0, day |-> 0, hour |-> 0, minute |-> 0, second |-> 0,
   nsec |-> 0, offset |-> 0]

GoValue(type) ==
  [type |-> type, flag |-> FALSE, neg |-> FALSE, digits |-> <<>>, exp |-> 0,
   text |-> <<>>, at |-> NoTime]

GoNil == GoValue("nil")
GoInt64(neg, digits) == [GoValue("int64") EXCEPT !.neg = neg, !.digits = digits]
GoFloat64(neg, digits, exp) ==
  [GoValue("float64") EXCEPT !.neg = neg, !.digits = digits, !.exp = exp]
GoFloat64Special(neg, text) == [GoValue("float64") EXCEPT !.neg = neg, !.text = text]
GoBool(b) == [GoValue("bool") EXCEPT !.flag = b]
GoString(text) == [GoValue("string") EXCEPT !.text = text]
GoBytes(text) == [GoValue("[]byte") EXCEPT !.text = text]
GoTime(at) == [GoValue("time.Time") EXCEPT !.at = at]
GoUint64(digits) == [GoValue("uint64") EXCEPT !.digits = digits]
GoFloat32(neg, digits, exp) ==
  [GoValue("float32") EXCEPT !.neg = neg, !.digits = digits, !.exp = exp]

SignChars == {"+", "-"}

AllDigits(s) == \A i \in DOMAIN s : s[i] \in DigitChars

DigitVal(c) == (CHOOSE i \in DOMAIN Digits : Digits[i] = c) - 1

RECURSIVE StripLeadingZeros(_)
StripLeadingZeros(d) ==
  IF d # <<>> /\ Head(d) = "0" THEN StripLeadingZeros(Tail(d)) ELSE d

RECURSIVE StripTrailingZeros(_)
StripTrailingZeros(d) ==
  IF d # <<>> /\ d[Len(d)] = "0"
    THEN StripTrailingZeros(SubSeq(d, 1, Len(d) - 1))
    ELSE d

\* a <= b for digit strings of equal length.
RECURSIVE DigitsLeq(_, _)
DigitsLeq(a, b) ==
  IF a = <<>> THEN TRUE
  ELSE IF DigitVal(Head(a)) < DigitVal(Head(b)) THEN TRUE
  ELSE IF DigitVal(Head(a)) > DigitVal(Head(b)) THEN FALSE
  ELSE DigitsLeq(Tail(a), Tail(b))

\* The magnitude d (no leading zeros) is at most the magnitude max.
MagnitudeLeq(d, max) ==
  \/ Len(d) < Len(max)
  \/ Len(d) = Len(max) /\ DigitsLeq(d, max)

MaxInt64Digits ==
  <<"9","2","2","3","3","7","2","0","3","6","8","5","4","7","7","5","8","0","7">>
MinInt64Digits ==
  <<"9","2","2","3","3","7","2","0","3","6","8","5","4","7","7","5","8","0","8">>

ParseFailed == [ok |-> FALSE, val |-> GoNil]
Parsed(v) == [ok |-> TRUE, val |-> v]

\* strconv.ParseInt(s, 10, 64): an optional sign, then decimal digits only;
\* a value outside the int64 range is an error.
ParseInt(s) ==
  LET signed == s # <<>> /\ Head(s) \in SignChars
      neg == signed /\ Head(s) = "-"
      body == IF signed THEN Tail(s) ELSE s
      d == StripLeadingZeros(body)
  IN IF body = <<>> \/ ~AllDigits(body) THEN ParseFailed
     ELSE IF ~MagnitudeLeq(d, IF neg THEN MinInt64Digits ELSE MaxInt64Digits)
       THEN ParseFailed
     ELSE IF d = <<>> THEN Parsed(GoInt64(FALSE, <<"0">>))
     ELSE Parsed(GoInt64(neg, d))

\* Value of a short run of decimal digits.
RECURSIVE DigitsToInt(_)
DigitsToInt(d) ==
  IF d = <<>> THEN 0 ELSE DigitsToInt(SubSeq(d, 1, Len(d) - 1)) * 10 + DigitVal(d[Len(d)])

WithoutUnderscores(s) == SelectSeq(s, LAMBDA c : c # "_")

\* strconv's underscoreOK for text without a base prefix: an underscore
\* stands only between two digits.
UnderscoreOK(s) ==
  \A i \in DOMAIN s :
    s[i] = "_" => /\ i > 1 /\ i < Len(s)
                  /\ s[i - 1] \in DigitChars
                  /\ s[i + 1] \in DigitChars

txtInf == <<"i","n","f">>
txtInfinity == <<"i","n","f","i","n","i","t","y">>
txtNaN == <<"n","a","n">>

\* Largest decimal exponent of a float64 (1.79e308) and the smallest one that
\* does not round to zero (4.9e-324).
MaxFloatExp10 == 308
MinFloatExp10 == 0 - 324
\* Most digits of an exponent the model evaluates; longer ones are out of
\* range on their sign's side.
MaxExpDigits == 4

\* The decimal float syntax of strconv.ParseFloat(s, 64) after the sign:
\* digits [. digits] [e|E [sign] digits], with at least one mantissa digit.
\* The result is the mantissa's digits and the power of ten of its last
\* digit; an overflowing magnitude is an error, an underflowing one is zero.
ParseDecimal(neg, body) ==
  LET lower == ToLower(body)
      ePos == Index(lower, <<"e">>)
      mant == IF ePos = 0 THEN body ELSE SubSeq(body, 1, ePos - 1)
      expo == IF ePos = 0 THEN <<>> ELSE SubSeq(body, ePos + 1, Len(body))
      expSigned == expo # <<>> /\ Head(expo) \in SignChars
      expNeg == expSigned /\ Head(expo) = "-"
      expDigits == WithoutUnderscores(IF expSigned THEN Tail(expo) ELSE expo)
      dot == Index(mant, <<".">>)
      intPart == WithoutUnderscores(IF dot = 0 THEN mant ELSE SubSeq(mant, 1, dot - 1))
      fracPart == WithoutUnderscores(IF dot = 0 THEN <<>> ELSE SubSeq(mant, dot + 1, Len(mant)))
      wellFormed ==
        /\ AllDigits(intPart) /\ AllDigits(fracPart)
        /\ intPart \o fracPart # <<>>
        /\ ePos # 0 => (expDigits # <<>> /\ AllDigits(expDigits))
        /\ UnderscoreOK(body)
      all == StripLeadingZeros(intPart \o fracPart)
      digits == StripTrailingZeros(all)
      e == StripLeadingZeros(expDigits)
      hugeExp == Len(e) > MaxExpDigits
      expVal == IF hugeExp THEN 0 ELSE IF expNeg THEN 0 - DigitsToInt(e) ELSE DigitsToInt(e)
      lastExp == expVal - Len(fracPart) + (Len(all) - Len(digits))
      topExp == lastExp + Len(digits) - 1
  IN IF ~wellFormed THEN ParseFailed
     ELSE IF digits = <<>> THEN Parsed(GoFloat64(neg, <<>>, 0))
     ELSE IF (hugeExp /\ ~expNeg) \/ (~hugeExp /\ topExp > MaxFloatExp10) THEN ParseFailed
     ELSE IF (hugeExp /\ expNeg) \/ topExp < MinFloatExp10 THEN Parsed(GoFloat64(neg, <<>>, 0))
     ELSE Parsed(GoFloat64(neg, digits, lastExp))

\* strconv.ParseFloat(s, 64) on decimal text: the special values inf,
\* infinity (signed or not) and nan (unsigned) in any case, or a decimal
\* float.  Hexadecimal floats are not among the texts of the model.
ParseFloat(s) ==
  LET signed == s # <<>> /\ Head(s) \in SignChars
      neg == signed /\ Head(s) = "-"
      body == IF signed THEN Tail(s) ELSE s
      lower == ToLower(body)
  IN IF lower \in {txtInf, txtInfinity} THEN Parsed(GoFloat64Special(neg, txtInf))
     ELSE IF ~signed /\ lower = txtNaN THEN Parsed(GoFloat64Special(FALSE, txtNaN))
     ELSE ParseDecimal(neg, body)

TrueTexts ==
  { <<"1">>, <<"t">>, <<"T">>, <<"T","R","U","E">>, <<"t","r","u","e">>, <<"T","r","u","e">> }
FalseTexts ==
  { <<"0">>, <<"f">>, <<"F">>, <<"F","A","L","S","E">>, <<"f","a","l","s","e">>,
    <<"F","a","l","s","e">> }

\* strconv.ParseBool
ParseBool(s) ==
  IF s \in TrueTexts THEN Parsed(GoBool(TRUE))
  ELSE IF s \in FalseTexts THEN Parsed(GoBool(FALSE))
  ELSE ParseFailed

\* n in decimal, padded with zeros on the left to width w.
RECURSIVE Pad(_, _)
Pad(n, w) ==
  IF w <= 0 THEN <<>> ELSE Pad(n \div 10, w - 1) \o <<Digits[(n % 10) + 1]>>

\* t.Format(time.RFC3339Nano): 2006-01-02T15:04:05.999999999Z07:00.  The
\* fraction loses its trailing zeros and is left out when zero; the zone is
\* Z for offset zero and a signed hh:mm otherwise.
FormatRFC3339Nano(t) ==
  LET frac == StripTrailingZeros(Pad(t.nsec, 9))
      off == IF t.offset < 0 THEN 0 - t.offset ELSE t.offset
  IN Pad(t.year, 4) \o <<"-">> \o Pad(t.month, 2) \o <<"-">> \o Pad(t.day, 2)
     \o <<"T">> \o Pad(t.hour, 2) \o <<":">> \o Pad(t.minute, 2) \o <<":">> \o Pad(t.second, 2)
     \o (IF frac = <<>> THEN <<>> ELSE <<".">> \o frac)
     \o (IF t.offset = 0 THEN <<"Z">>
         ELSE <<IF t.offset < 0 THEN "-" ELSE "+">> \o Pad(off \div 60, 2) \o <<":">>
              \o Pad(off % 60, 2))

\* Mutant: a byte buffer is tried as a boolean before it is tried as a number.
normalizeDBValue_BoolFirst(v) ==
  IF v.type = "nil" THEN GoNil
  ELSE IF v.type = "time.Time" THEN GoString(FormatRFC3339Nano(v.at))
  ELSE IF v.type = "[]byte"
    THEN IF ParseBool(v.text).ok THEN ParseBool(v.text).val
         ELSE IF ParseInt(v.text).ok THEN ParseInt(v.text).val
         ELSE IF ParseFloat(v.text).ok THEN ParseFloat(v.text).val
         ELSE GoString(v.text)
  ELSE v

normalizeDBValue(v) ==
  IF v.type = "nil" THEN GoNil
  ELSE IF v.type = "time.Time" THEN GoString(FormatRFC3339Nano(v.at))
  ELSE IF v.type = "[]byte"
    THEN IF ParseInt(v.text).ok THEN ParseInt(v.text).val
         ELSE IF ParseFloat(v.text).ok THEN ParseFloat(v.text).val
         ELSE IF ParseBool(v.text).ok THEN ParseBool(v.text).val
         ELSE GoString(v.text)
  ELSE v

(***************************************************************************)
(* Specification of normalizeDBValue on the values a driver hands over.    *)
(***************************************************************************)
\* Texts of byte buffers.
ByteTexts ==
  { <<"4","2">>, <<"1">>, <<"0">>, <<"-","7">>, <<"+","5">>, <<"0","0","7">>, <<"-","0">>,
    <<"3",".","1","4">>, <<"1","e","3">>, <<"1","0","0","0",".","0">>, <<".","5">>, <<"5",".">>,
    <<"-","2",".","5","E","-","3">>, <<"1","_","0","0","0">>, <<"0",".","0">>,
    <<"1","e","4","0","0">>, <<"1","e","-","4","0","0">>, <<"1","e">>, <<".">>,
    <<"i","n","f">>, <<"-","I","n","f","i","n","i","t","y">>, <<"N","a","N">>, <<"+","n","a","n">>,
    <<"9","2","2","3","3","7","2","0","3","6","8","5","4","7","7","5","8","0","7">>,
    <<"9","2","2","3","3","7","2","0","3","6","8","5","4","7","7","5","8","0","8">>,
    <<"-","9","2","2","3","3","7","2","0","3","6","8","5","4","7","7","5","8","0","8">>,
    <<"t","r","u","e">>, <<"T","R","U","E">>, <<"T","r","u","e">>, <<"t">>, <<"T">>,
    <<"f","a","l","s","e">>, <<"F","A","L","S","E">>, <<"F","a","l","s","e">>, <<"f">>, <<"F">>,
    <<"t","R","u","E">>, <<"y","e","s">>,
    <<"h","e","l","l","o">>, <<>>, <<" ">>, <<" ","4","2">>, <<"4","2"," ">>, <<"4","2","\n">>,
    <<"1","2","a">>, <<"-">>, <<"+","-","1">>, <<"1",",","5">> }

Times ==
  [year : {2024}, month : {1, 12}, day : {2}, hour : {0, 15}, minute : {4}, second : {5},
   nsec : {0, 120, 500000000, 999999999}, offset : {0, 330, 0 - 480}]

\* The dynamic types a scanned cell is given by the drivers: nil, the six
\* types database/sql names, and the unsigned and single-precision numbers
\* a driver hands over for columns of those types.
RawValues ==
  {GoNil}
    \cup { GoTime(t) : t \in Times }
    \cup { GoBytes(b) : b \in ByteTexts }
    \cup { GoInt64(FALSE, <<"7">>), GoInt64(TRUE, <<"1">>), GoFloat64(FALSE, <<"5">>, 0 - 1),
           GoBool(TRUE), GoBool(FALSE), GoString(<<"4","2">>), GoString(<<>>),
           GoString(<<"a","\n","b">>) }
    \cup { GoUint64(<<"1","8","4","4","6","7","4","4","0","7","3","7","0","9","5","5","1","6","1","5">>),
           GoFloat32(FALSE, <<"1","5">>, 0 - 1) }

InitNormalize ==
  /\ nPc = "input"
  /\ nIn \in RawValues
  /\ nOut = "none"
  /\ GuardIdle
  /\ PipeIdle
  /\ IntroIdle
  /\ ExecIdle
  /\ RenderIdle
  /\ ExtraIdle

\* A call normalizeDBValue(nIn).
CallNormalizeDBValue ==
  /\ nPc = "input"
  /\ nPc' = "done"
  /\ nOut' = normalizeDBValue(nIn)
  /\ UNCHANGED <<nIn, guardVars, pipeVars, introVars, execVars, renderVars, extraVars>>

NextNormalize == CallNormalizeDBValue

SpecNormalize == InitNormalize /\ [][NextNormalize]_vars

(***************************************************************************)
(* Specification of executeQuery: one action per call on the driver.       *)
(***************************************************************************)
\* Column lists of a query's result; a query may name a column twice.
ColumnLists == { <<"id">>, <<"id", "name">>, <<"id", "id">> }

\* Cells a driver row holds.
ExecCells ==
  { GoNil,
    GoBytes(<<"1">>),
    GoTime([year |-> 2024, month |-> 1, day |-> 2, hour |-> 15, minute |-> 4, second |-> 5,
            nsec |-> 0, offset |-> 0]),
    GoUint64(<<"1","8","4","4","6","7","4","4","0","7","3","7","0","9","5","5","1","6","1","5">>) }

\* The result sets with these columns and at most MaxRows rows.
DriverResults(cols) ==
  UNION { [1..n -> [1..Len(cols) -> ExecCells]] : n \in 0..MaxRows }

InitExec ==
  /\ xDriverCols \in ColumnLists
  /\ xDriverRows \in DriverResults(xDriverCols)
  /\ xPc = "start"
  /\ xIdx = 0
  /\ xColumns = <<>>
  /\ xResult = <<>>
  /\ xOpen = FALSE
  /\ xRetCols = <<>>
  /\ xRetRows = <<>>
  /\ xErr = NoErr
  /\ GuardIdle
  /\ PipeIdle
  /\ IntroIdle
  /\ NormIdle
  /\ RenderIdle
  /\ ExtraIdle

execOthers == <<guardVars, pipeVars, introVars, normVars, renderVars, extraVars>>

\* Mutant: a failure hands back what was collected so far.
ExecReturn_KeepCollected(columns, result, err) ==
  /\ xRetCols' = IF err # NoErr THEN xColumns ELSE columns
  /\ xRetRows' = IF err # NoErr THEN xResult ELSE result
  /\ xErr' = err
  /\ xPc' = "returned"

\* executeQuery returns (columns, result, err).
ExecReturn(columns, result, err) ==
  /\ xRetCols' = columns
  /\ xRetRows' = result
  /\ xErr' = err
  /\ xPc' = "returned"

\* Mutant: the row map holds the first column only.
RowMap_FirstColumnOnly(columns, values) ==
  [c \in {columns[1]} |-> normalizeDBValue(values[1])]

\* The map built for one row: row[col] = normalizeDBValue(values[i]) for
\* i in order, so a repeated name keeps the cell of its last position.
RowMap(columns, values) ==
  [c \in Range(columns) |->
     normalizeDBValue(
       values[CHOOSE i \in DOMAIN columns :
                columns[i] = c /\ \A j \in DOMAIN columns : columns[j] = c => j <= i])]

\* db.QueryContext(ctx, query); the cursor is closed by defer on return.
ExecQueryContext ==
  /\ xPc = "start"
  /\ \E ok \in BOOLEAN :
       IF ok
         THEN /\ xOpen' = TRUE
              /\ xPc' = "columns"
              /\ UNCHANGED <<xRetCols, xRetRows, xErr>>
         ELSE /\ xOpen' = FALSE
              /\ ExecReturn(<<>>, <<>>, ErrDriver)
  /\ UNCHANGED <<xDriverCols, xDriverRows, xIdx, xColumns, xResult, execOthers>>

\* rows.Columns()
ExecColumns ==
  /\ xPc = "columns"
  /\ \E ok \in BOOLEAN :
       IF ok
         THEN /\ xColumns' = xDriverCols
              /\ xPc' = "rows"
              /\ UNCHANGED <<xOpen, xRetCols, xRetRows, xErr>>
         ELSE /\ xOpen' = FALSE
              /\ ExecReturn(<<>>, <<>>, ErrDriver)
              /\ xColumns' = xColumns
  /\ UNCHANGED <<xDriverCols, xDriverRows, xIdx, xResult, execOthers>>

\* Mutant: a failed scan returns without closing the cursor.
ExecScanRow_LeaveOpen ==
  /\ xPc = "rows"
  /\ xIdx < Len(xDriverRows)
  /\ \E ok \in BOOLEAN :
       IF ok
         THEN /\ xIdx' = xIdx + 1
              /\ xResult' = Append(xResult, RowMap(xColumns, xDriverRows[xIdx + 1]))
              /\ UNCHANGED <<xOpen, xPc, xRetCols, xRetRows, xErr>>
         ELSE /\ xOpen' = xOpen
              /\ ExecReturn(<<>>, <<>>, ErrDriver)
              /\ UNCHANGED <<xIdx, xResult>>
  /\ UNCHANGED <<xDriverCols, xDriverRows, xColumns, execOthers>>

\* rows.Next() gave a row: rows.Scan into values, then the row map.
ExecScanRow ==
  /\ xPc = "rows"
  /\ xIdx < Len(xDriverRows)
  /\ \E ok \in BOOLEAN :
       IF ok
         THEN /\ xIdx' = xIdx + 1
              /\ xResult' = Append(xResult, RowMap(xColumns, xDriverRows[xIdx + 1]))
              /\ UNCHANGED <<xOpen, xPc, xRetCols, xRetRows, xErr>>
         ELSE /\ xOpen' = FALSE
              /\ ExecReturn(<<>>, <<>>, ErrDriver)
              /\ UNCHANGED <<xIdx, xResult>>
  /\ UNCHANGED <<xDriverCols, xDriverRows, xColumns, execOthers>>

\* rows.Next() gave false, after the last row or on an iteration error;
\* rows.Err() decides the result.
ExecEndRows ==
  /\ xPc = "rows"
  /\ \E rowsErr \in BOOLEAN :
       /\ ~rowsErr => xIdx = Len(xDriverRows)
       /\ IF rowsErr THEN ExecReturn(<<>>, <<>>, ErrDriver)
                     ELSE ExecReturn(xColumns, xResult, NoErr)
  /\ xOpen' = FALSE
  /\ UNCHANGED <<xDriverCols, xDriverRows, xIdx, xColumns, xResult, execOthers>>

NextExec ==
  \/ ExecQueryContext
  \/ ExecColumns
  \/ ExecScanRow
  \/ ExecEndRows

SpecExec == InitExec /\ [][NextExec]_vars

(***************************************************************************)
(* Specification of the calls that open result cursors: one call of        *)
(* executeQuery or one of buildSchemaContext.                              *)
(***************************************************************************)
InitDB == InitExec \/ InitIntrospect

NextDB == NextExec \/ NextIntrospect

SpecDB == InitDB /\ [][NextDB]_vars

(***************************************************************************)
(* part_005: rendering.  A text is a sequence of characters; one of them,  *)
(* chEAcute, takes two bytes in UTF-8, the others one.                     *)
(***************************************************************************)
chEAcute == "E_ACUTE"

ByteLen(c) == IF c = chEAcute THEN 2 ELSE 1

\* len(s): the number of bytes of s.
RECURSIVE GoLen(_)
GoLen(s) == IF s = <<>> THEN 0 ELSE ByteLen(Head(s)) + GoLen(Tail(s))

\* strings.Repeat of a one-character string.
Repeat(c, n) == [i \in 1..n |-> c]

\* strings.ReplaceAll(s, old, new) for one-character old and new.
ReplaceAll(s, old, new) == [i \in DOMAIN s |-> IF s[i] = old THEN new ELSE s[i]]

\* Characters in the order of their first byte.
ByteOrder ==
  <<"\t", "\n", "\r", " ", "\"", "+", "-", ".">> \o Digits \o UpperLetters
    \o <<"\\", "_">> \o LowerLetters \o <<chEAcute>>

CharRank(c) == CHOOSE i \in DOMAIN ByteOrder : ByteOrder[i] = c

\* a < b in the byte order of Go strings.
RECURSIVE StringLess(_, _)
StringLess(a, b) ==
  IF b = <<>> THEN FALSE
  ELSE IF a = <<>> THEN TRUE
  ELSE IF Head(a) # Head(b) THEN CharRank(Head(a)) < CharRank(Head(b))
  ELSE StringLess(Tail(a), Tail(b))

\* The keys of a map in the order encoding/json writes them: sorted.
RECURSIVE SortedKeys(_)
SortedKeys(keys) ==
  IF keys = {} THEN <<>>
  ELSE LET least == CHOOSE k \in keys : \A o \in keys \ {k} : StringLess(k, o)
       IN <<least>> \o SortedKeys(keys \ {least})

\* A float in the plain decimal form both fmt's %v and encoding/json use
\* for magnitudes from 0.0001 up to (not including) 1000000.
FormatFloatPlain(v) ==
  LET sign == IF v.neg THEN <<"-">> ELSE <<>>
      n == Len(v.digits)
  IN IF v.digits = <<>> THEN sign \o <<"0">>
     ELSE IF v.exp >= 0 THEN sign \o v.digits \o Repeat("0", v.exp)
     ELSE IF n > 0 - v.exp
       THEN sign \o SubSeq(v.digits, 1, n + v.exp) \o <<".">> \o SubSeq(v.digits, n + v.exp + 1, n)
     ELSE sign \o <<"0", ".">> \o Repeat("0", (0 - v.exp) - n) \o v.digits

txtNULL == <<"N","U","L","L">>
txtNull == <<"n","u","l","l">>
txtTrue == <<"t","r","u","e">>
txtFalse == <<"f","a","l","s","e">>

\* fmt.Sprintf("%v", v) for the values of the model's cells.
SprintfV(v) ==
  IF v.type \in {"int64", "uint64"} THEN (IF v.neg THEN <<"-">> ELSE <<>>) \o v.digits
  ELSE IF v.type = "bool" THEN (IF v.flag THEN txtTrue ELSE txtFalse)
  ELSE IF v.type \in {"float64", "float32"}
    THEN IF v.text = txtNaN THEN <<"N","a","N">>
         ELSE IF v.text = txtInf THEN <<IF v.neg THEN "-" ELSE "+">> \o <<"I","n","f">>
         ELSE FormatFloatPlain(v)
  ELSE v.text

formatCellValue(v) ==
  IF v.type = "nil" THEN txtNULL
  ELSE ReplaceAll(ReplaceAll(SprintfV(v), "\n", " "), "\r", " ")

buildHorizontalLine(widths) ==
  LET Seg(i) == Repeat("-", widths[i] + 2) \o <<"+">>
      Segs[i \in 0..Len(widths)] == IF i = 0 THEN <<"+">> ELSE Segs[i - 1] \o Seg(i)
  IN Segs[Len(widths)]

buildTableRow(values, widths) ==
  LET padding(i) == widths[i] - GoLen(values[i])
      Cell(i) == <<" ">> \o values[i]
                 \o (IF padding(i) > 0 THEN Repeat(" ", padding(i)) ELSE <<>>)
                 \o <<" ", "|">>
      Cells[i \in 0..Len(values)] == IF i = 0 THEN <<"|">> ELSE Cells[i - 1] \o Cell(i)
  IN Cells[Len(values)]

Max(S) == CHOOSE m \in S : \A o \in S : o <= m

txtNoRows == <<"No rows returned.">>
txtZeroRows == <<"(0 rows)">>

\* renderTable, as the lines of its text.
renderTable(columns, rowMaps) ==
  IF Len(columns) = 0 THEN <<txtNoRows>>
  ELSE LET stringRows == [r \in DOMAIN rowMaps |->
                            [i \in DOMAIN columns |-> formatCellValue(rowMaps[r][columns[i]])]]
           widths == [i \in DOMAIN columns |->
                        Max({GoLen(columns[i])} \cup { GoLen(stringRows[r][i]) : r \in DOMAIN rowMaps })]
           hline == buildHorizontalLine(widths)
       IN <<hline, buildTableRow(columns, widths), hline>>
          \o [r \in DOMAIN rowMaps |-> buildTableRow(stringRows[r], widths)]
          \o <<hline>>
          \o (IF Len(rowMaps) = 0 THEN <<txtZeroRows>> ELSE <<>>)

\* encoding/json's string literal: quoted, with the escapes of the
\* characters the model's texts hold.
JSONString(s) ==
  LET Esc(c) == IF c = "\n" THEN <<"\\", "n">>
                ELSE IF c = "\r" THEN <<"\\", "r">>
                ELSE IF c = "\t" THEN <<"\\", "t">>
                ELSE IF c = "\"" THEN <<"\\", "\"">>
                ELSE IF c = "\\" THEN <<"\\", "\\">>
                ELSE <<c>>
      Out[i \in 0..Len(s)] == IF i = 0 THEN <<>> ELSE Out[i - 1] \o Esc(s[i])
  IN <<"\"">> \o Out[Len(s)] \o <<"\"">>

\* encoding/json refuses the floats that are not numbers.
JSONUnsupported(v) == v.type \in {"float64", "float32"} /\ v.text # <<>>

\* The JSON literal of a value.
JSONValue(v) ==
  IF v.type = "nil" THEN txtNull
  ELSE IF v.type = "string" THEN JSONString(v.text)
  ELSE SprintfV(v)

\* The lines of one object whose members are written in the order keys,
\* at the indentation of an array element.
JSONObjectLines(row, keys, last) ==
  LET close == IF last THEN <<>> ELSE <<",">>
      Member(i) == <<" ", " ", " ", " ">> \o JSONString(keys[i]) \o <<":", " ">>
                   \o JSONValue(row[keys[i]])
                   \o (IF i = Len(keys) THEN <<>> ELSE <<",">>)
  IN IF keys = <<>> THEN << <<" ", " ", "{", "}">> \o close >>
     ELSE << <<" ", " ", "{">> >> \o [i \in DOMAIN keys |-> Member(i)]
          \o << <<" ", " ", "}">> \o close >>

\* The order in which json.Marshal writes the members of a map.
ObjectKeys(row) == SortedKeys(DOMAIN row)

\* json.MarshalIndent(rows, "", "  "), as the lines of its text.
MarshalIndentRows(rowMaps) ==
  IF Len(rowMaps) = 0 THEN << <<"[", "]">> >>
  ELSE LET Lines[i \in 0..Len(rowMaps)] ==
             IF i = 0 THEN << <<"[">> >>
             ELSE Lines[i - 1]
                  \o JSONObjectLines(rowMaps[i], ObjectKeys(rowMaps[i]), i = Len(rowMaps))
       IN Lines[Len(rowMaps)] \o << <<"]">> >>

ErrUnsupportedFormat == "unsupported output format"

(***************************************************************************)
(* Specification of renderOutput on result sets of at most MaxRows rows.   *)
(***************************************************************************)
colIdName == <<"i","d">>
colNameName == <<"n","a","m","e">>
colScoreName == <<"s","c","o","r","e">>

RenderColumnLists ==
  { <<>>, <<colIdName>>, <<colNameName>>, <<colScoreName>>,
    <<colIdName, colNameName>>, <<colNameName, colIdName>>, <<colIdName, colIdName>> }

\* The normalized values a column holds.
RenderCells(col) ==
  IF col = colIdName
    THEN { GoNil, GoInt64(FALSE, <<"1">>), GoInt64(TRUE, <<"2","0">>) }
  ELSE IF col = colNameName
    THEN { GoString(<<"s","a","m">>), GoString(<<>>), GoString(<<"a","\n","b","\r">>),
           GoString(<<chEAcute>>) }
  ELSE { GoFloat64(FALSE, <<"3","1","4">>, 0 - 2), GoFloat64Special(FALSE, txtNaN) }

RenderRowMaps(cols) ==
  { row \in [Range(cols) -> UNION { RenderCells(c) : c \in Range(cols) }] :
      \A c \in Range(cols) : row[c] \in RenderCells(c) }

RenderRows(cols) ==
  UNION { [1..n -> RenderRowMaps(cols)] : n \in 0..MaxRows }

RenderFormats == {"json", "table", "csv"}

InitRender ==
  /\ rPc = "start"
  /\ rFormat \in RenderFormats
  /\ rColumns \in RenderColumnLists
  /\ rRows \in RenderRows(rColumns)
  /\ rText = <<>>
  /\ rErr = NoErr
  /\ GuardIdle
  /\ PipeIdle
  /\ IntroIdle
  /\ ExecIdle
  /\ NormIdle
  /\ ExtraIdle

renderOthers == <<guardVars, pipeVars, introVars, execVars, normVars, extraVars>>

\* renderOutput, case "json".
RenderJSON ==
  /\ rPc = "start"
  /\ rFormat = "json"
  /\ rPc' = "returned"
  /\ IF \E i \in DOMAIN rRows : \E c \in DOMAIN rRows[i] : JSONUnsupported(rRows[i][c])
       THEN /\ rText' = <<>>
            /\ rErr' = ErrRender
       ELSE /\ rText' = MarshalIndentRows(rRows)
            /\ rErr' = NoErr
  /\ UNCHANGED <<rFormat, rColumns, rRows, renderOthers>>

\* renderOutput, case "table".
RenderTable ==
  /\ rPc = "start"
  /\ rFormat = "table"
  /\ rPc' = "returned"
  /\ rText' = renderTable(rColumns, rRows)
  /\ rErr' = NoErr
  /\ UNCHANGED <<rFormat, rColumns, rRows, renderOthers>>

\* renderOutput, default case.
RenderUnsupported ==
  /\ rPc = "start"
  /\ rFormat \notin {"json", "table"}
  /\ rPc' = "returned"
  /\ rText' = <<>>
  /\ rErr' = ErrUnsupportedFormat
  /\ UNCHANGED <<rFormat, rColumns, rRows, renderOthers>>

NextRender ==
  \/ RenderJSON
  \/ RenderTable
  \/ RenderUnsupported

SpecRender == InitRender /\ [][NextRender]_vars

(***************************************************************************)
(* Specification of runReset: the files of the reset items, the            *)
(* confirmation prompt, one action per item of the removal loop, and the   *)
(* report.                                                                 *)
(***************************************************************************)
ResetLabels == {"config", "profile", "history"}

\* resetItemsForTarget: the labels of the items, each standing for its path.
resetItemsForTarget(target) ==
  CASE target = "config"  -> <<"config">>
    [] target = "profile" -> <<"profile">>
    [] target = "all"     -> <<"config", "profile", "history">>
    [] OTHER              -> <<>>

ResetTargets == {"config", "profile", "all", "history"}

\* What a path holds: a file, nothing, a file in a directory that does not
\* allow removal (os.Stat succeeds, os.Remove fails), or a path under a
\* directory that cannot be searched (os.Stat and os.Remove both fail with
\* an error that is not ErrNotExist).
FileStates == {"present", "absent", "locked", "blocked"}

ErrUnsupportedReset == "unsupported reset target"
ErrReadAnswer == "input error"

ErrCheck(label) ==
  CASE label = "config"  -> "check config: permission denied"
    [] label = "profile" -> "check profile: permission denied"
    [] OTHER             -> "check history: permission denied"

ErrRemove(label) ==
  CASE label = "config"  -> "remove config: permission denied"
    [] label = "profile" -> "remove profile: permission denied"
    [] OTHER             -> "remove history: permission denied"

\* The lines a user may type at the prompt, and how the read ends.
AnswerLines ==
  { <<>>, <<"\n">>, <<"y", "\n">>, <<"Y", "E", "S", "\n">>, <<" ", "y", "e", "s">>,
    <<"n", "\n">>, <<"N", "o", "\n">>, <<"o", "k", "\n">> }

ReadEnds == {"nil", "EOF", "closed", "other"}

\* confirmReset: the pair (ok, err) for the line read and the way the read
\* ended.
confirmReset(line, readEnd) ==
  LET answer == ToLower(TrimSpace(line))
      byAnswer == [ok |-> answer \in {<<>>, <<"y">>, <<"y", "e", "s">>}, err |-> NoErr]
  IN IF readEnd = "nil" THEN byAnswer
     ELSE IF readEnd = "EOF"
       THEN IF TrimSpace(line) = <<>> THEN [ok |-> FALSE, err |-> NoErr] ELSE byAnswer
     ELSE IF readEnd = "closed" THEN [ok |-> FALSE, err |-> NoErr]
     ELSE IF Len(TrimSpace(line)) = 0 THEN [ok |-> FALSE, err |-> ErrReadAnswer]
     ELSE byAnswer

InitReset ==
  /\ tTarget \in ResetTargets
  /\ tYes \in BOOLEAN
  /\ tDryRun \in BOOLEAN
  /\ tStart \in [ResetLabels -> FileStates]
  /\ tFiles = tStart
  /\ tPc = "start"
  /\ tIdx = 0
  /\ tRemoved = <<>>
  /\ tMissing = <<>>
  /\ tWouldRemove = <<>>
  /\ tOut = <<>>
  /\ tErr = NoErr
  /\ GuardIdle
  /\ PipeIdle
  /\ IntroIdle
  /\ ExecIdle
  /\ NormIdle
  /\ RenderIdle
  /\ StripIdle

resetOthers == <<guardVars, pipeVars, introVars, execVars, normVars, renderVars, stripVars>>

ResetArgs == <<tTarget, tYes, tDryRun, tStart>>

\* runReset returns err.
ResetReturn(err) ==
  /\ tErr' = err
  /\ tPc' = "returned"

\* The items of the target and, without -y, the confirmation.
ResetBegin ==
  /\ tPc = "start"
  /\ IF Len(resetItemsForTarget(tTarget)) = 0
       THEN ResetReturn(ErrUnsupportedReset)
     ELSE IF ~tYes
       THEN \E line \in AnswerLines, readEnd \in ReadEnds :
              LET c == confirmReset(line, readEnd)
              IN IF c.err # NoErr THEN ResetReturn(c.err)
                 ELSE IF ~c.ok THEN ResetReturn(NoErr)
                 ELSE tPc' = "loop" /\ tErr' = tErr
     ELSE tPc' = "loop" /\ tErr' = tErr
  /\ UNCHANGED <<ResetArgs, tFiles, tIdx, tRemoved, tMissing, tWouldRemove, tOut, resetOthers>>

\* Mutant: the loop removes the file also under --dry-run.
ResetItem_RemoveInDryRun ==
  /\ tPc = "loop"
  /\ tIdx < Len(resetItemsForTarget(tTarget))
  /\ LET label == resetItemsForTarget(tTarget)[tIdx + 1]
         state == tFiles[label]
     IN /\ tWouldRemove' = tWouldRemove
        /\ IF state = "present"
             THEN /\ tFiles' = [tFiles EXCEPT ![label] = "absent"]
                  /\ tRemoved' = Append(tRemoved, label)
                  /\ tIdx' = tIdx + 1
                  /\ UNCHANGED <<tMissing, tPc, tErr>>
           ELSE IF state = "absent"
             THEN /\ tMissing' = Append(tMissing, label)
                  /\ tIdx' = tIdx + 1
                  /\ UNCHANGED <<tFiles, tRemoved, tPc, tErr>>
           ELSE /\ ResetReturn(ErrRemove(label))
                /\ UNCHANGED <<tFiles, tRemoved, tMissing, tIdx>>
  /\ UNCHANGED <<ResetArgs, tOut, resetOthers>>

\* One pass of the loop over the items: os.Stat under --dry-run, os.Remove
\* otherwise.
ResetItem ==
  /\ tPc = "loop"
  /\ tIdx < Len(resetItemsForTarget(tTarget))
  /\ LET label == resetItemsForTarget(tTarget)[tIdx + 1]
         state == tFiles[label]
     IN IF tDryRun
          THEN /\ UNCHANGED <<tFiles, tRemoved>>
               /\ IF state \in {"present", "locked"}
                    THEN /\ tWouldRemove' = Append(tWouldRemove, label)
                         /\ tIdx' = tIdx + 1
                         /\ UNCHANGED <<tMissing, tPc, tErr>>
                  ELSE IF state = "absent"
                    THEN /\ tMissing' = Append(tMissing, label)
                         /\ tIdx' = tIdx + 1
                         /\ UNCHANGED <<tWouldRemove, tPc, tErr>>
                  ELSE /\ ResetReturn(ErrCheck(label))
                       /\ UNCHANGED <<tWouldRemove, tMissing, tIdx>>
          ELSE /\ tWouldRemove' = tWouldRemove
               /\ IF state = "present"
                    THEN /\ tFiles' = [tFiles EXCEPT ![label] = "absent"]
                         /\ tRemoved' = Append(tRemoved, label)
                         /\ tIdx' = tIdx + 1
                         /\ UNCHANGED <<tMissing, tPc, tErr>>
                  ELSE IF state = "absent"
                    THEN /\ tMissing' = Append(tMissing, label)
                         /\ tIdx' = tIdx + 1
                         /\ UNCHANGED <<tFiles, tRemoved, tPc, tErr>>
                  ELSE /\ ResetReturn(ErrRemove(label))
                       /\ UNCHANGED <<tFiles, tRemoved, tMissing, tIdx>>
  /\ UNCHANGED <<ResetArgs, tOut, resetOthers>>

\* The list lines of a report: one "- label (path)" line per item.
ItemLines(labels) == [i \in DOMAIN labels |-> <<"- ", labels[i]>>]

\* The report printed after the loop.
ResetReportLines(dryRun, removed, missing, wouldRemove) ==
  (IF dryRun
     THEN << <<"Dry run (no files deleted).">> >>
          \o (IF Len(wouldRemove) = 0
                THEN << <<"Nothing would be removed.">> >>
                ELSE << <<"Would remove:">> >> \o ItemLines(wouldRemove))
   ELSE IF Len(removed) = 0
     THEN << <<"Nothing was removed.">> >>
   ELSE << <<"Removed:">> >> \o ItemLines(removed))
  \o (IF Len(missing) > 0
        THEN << <<"Already missing:">> >> \o ItemLines(missing)
        ELSE <<>>)

\* The loop is over: the report is printed and runReset returns nil.
ResetReport ==
  /\ tPc = "loop"
  /\ tIdx = Len(resetItemsForTarget(tTarget))
  /\ tOut' = ResetReportLines(tDryRun, tRemoved, tMissing, tWouldRemove)
  /\ ResetReturn(NoErr)
  /\ UNCHANGED <<ResetArgs, tFiles, tIdx, tRemoved, tMissing, tWouldRemove, resetOthers>>

NextReset ==
  \/ ResetBegin
  \/ ResetItem
  \/ ResetReport

SpecReset == InitReset /\ [][NextReset]_vars

(***************************************************************************)
(* Specification of stripLeadingComments as the loop it is: one action per *)
(* iteration, on the texts given to the guard.                             *)
(***************************************************************************)
InitStrip ==
  /\ cPc = "start"
  /\ cIn \in GuardInputs
  /\ cText = <<>>
  /\ cOut = <<>>
  /\ GuardIdle
  /\ PipeIdle
  /\ IntroIdle
  /\ ExecIdle
  /\ NormIdle
  /\ RenderIdle
  /\ ResetIdle

stripOthers == <<guardVars, pipeVars, introVars, execVars, normVars, renderVars, resetVars>>

\* s := strings.TrimSpace(sqlText), before the loop.
StripBegin ==
  /\ cPc = "start"
  /\ cText' = TrimSpace(cIn)
  /\ cPc' = "loop"
  /\ UNCHANGED <<cIn, cOut, stripOthers>>

\* Mutant: an unterminated block comment is looked at again and again.
StripIteration_RetryUnterminated ==
  /\ cPc = "loop"
  /\ LET s == TrimSpace(cText)
     IN IF HasPrefix(s, txtLineComment)
          THEN LET idx == Index(s, txtNewline)
               IN IF idx = 0
                    THEN cOut' = <<>> /\ cPc' = "returned" /\ cText' = s
                    ELSE cText' = SubSeq(s, idx + 1, Len(s)) /\ UNCHANGED <<cPc, cOut>>
        ELSE IF HasPrefix(s, txtBlockOpen)
          THEN LET idx == Index(s, txtBlockClose)
               IN IF idx = 0
                    THEN cText' = s /\ UNCHANGED <<cPc, cOut>>
                    ELSE cText' = SubSeq(s, idx + 2, Len(s)) /\ UNCHANGED <<cPc, cOut>>
        ELSE cOut' = s /\ cPc' = "returned" /\ cText' = s
  /\ UNCHANGED <<cIn, stripOthers>>

\* One iteration of the loop: trim, then strip one line comment or one block
\* comment and go round again, or return.
StripIteration ==
  /\ cPc = "loop"
  /\ LET s == TrimSpace(cText)
     IN IF HasPrefix(s, txtLineComment)
          THEN LET idx == Index(s, txtNewline)
               IN IF idx = 0
                    THEN cOut' = <<>> /\ cPc' = "returned" /\ cText' = s
                    ELSE cText' = SubSeq(s, idx + 1, Len(s)) /\ UNCHANGED <<cPc, cOut>>
        ELSE IF HasPrefix(s, txtBlockOpen)
          THEN LET idx == Index(s, txtBlockClose)
               IN IF idx = 0
                    THEN cOut' = <<>> /\ cPc' = "returned" /\ cText' = s
                    ELSE cText' = SubSeq(s, idx + 2, Len(s)) /\ UNCHANGED <<cPc, cOut>>
        ELSE cOut' = s /\ cPc' = "returned" /\ cText' = s
  /\ UNCHANGED <<cIn, stripOthers>>

NextStrip ==
  \/ StripBegin
  \/ StripIteration

\* The call is sequential code: a step that can be taken is taken.
SpecStrip == InitStrip /\ [][NextStrip]_vars /\ WF_vars(NextStrip)

(***************************************************************************)
(* Vocabulary of the guard's claims, stated on the text itself.            *)
(***************************************************************************)
\* t begins with one of the three read-only openings.
BeginsReadOnly(t) ==
  \/ HasPrefix(t, kwSelect)
  \/ HasPrefix(t, kwWith)
  \/ HasPrefix(t, kwExplainSelect)

\* t begins with an opening that ensureLimit treats as limitable.
BeginsLimitable(t) == HasPrefix(t, kwSelect) \/ HasPrefix(t, kwWith)

\* w occurs in t as a whole word: neither neighbour is a word character.
ContainsWholeWord(t, w) ==
  \E i \in 1..Len(t) :
    /\ OccursAt(t, w, i)
    /\ (i = 1 \/ ~IsWordChar(t[i - 1]))
    /\ (i + Len(w) > Len(t) \/ ~IsWordChar(t[i + Len(w)]))

\* w occurs in t at all, as a whole word or inside a longer one.
ContainsAnywhere(t, w) == \E i \in 1..Len(t) : OccursAt(t, w, i)

ContainsForbiddenWord(t) == \E w \in ForbiddenWords : ContainsWholeWord(t, w)

\* t holds the word limit, then n >= 1 whitespace characters, then a digit.
HasLimitToken(t) ==
  LET l == ToLower(t)
  IN \E i \in 1..Len(t) :
       /\ OccursAt(l, kwLimit, i)
       /\ (i = 1 \/ ~IsWordChar(t[i - 1]))
       /\ \E n \in 1..(Len(t) - i - Len(kwLimit) + 1) :
            /\ i + Len(kwLimit) + n <= Len(t)
            /\ \A k \in 1..n : IsSpace(t[i + Len(kwLimit) + k - 1])
            /\ IsDigit(t[i + Len(kwLimit) + n])

\* What ensureLimit appends a limit to: the text without surrounding
\* whitespace and without one trailing semicolon.
LimitedText(q, n) ==
  TrimSuffix(TrimSpace(q), txtSemicolon) \o txtLimitClause \o Itoa(n) \o txtSemicolon

(***************************************************************************)
(* Claims about ensureReadOnlySQL (specification SpecGuard).               *)
(***************************************************************************)
\* C2: a text that, after leading-comment stripping, trimming and
\* lower-casing, begins with select, with or explain select and holds no
\* forbidden whole word is accepted; a text that begins with anything else
\* is rejected.
C2_ReadOnlyVerdict ==
  gPc = "readonly" =>
    LET t == cleanedLower(gQuery)
    IN /\ (BeginsReadOnly(t) /\ ~ContainsForbiddenWord(t)) => gErr = NoErr
       /\ ~BeginsReadOnly(t) => gErr # NoErr

\* C2 witness: an explain select behind a leading comment was accepted.
C2_Witness ==
  /\ gPc = "readonly"
  /\ gErr = NoErr
  /\ HasPrefix(cleanedLower(gQuery), kwExplainSelect)
  /\ HasPrefix(gQuery, txtBlockOpen)

\* C3 as stated: every text whose lower-cased form holds a forbidden whole
\* word is rejected.
C3_AsStated ==
  (gPc = "readonly" /\ ContainsForbiddenWord(ToLower(gQuery))) => gErr # NoErr

\* C3 amended: a statement that, once its leading comments are stripped,
\* holds a forbidden whole word is rejected even when it begins with select
\* or with; and the keyword rejection is only ever caused by a whole-word
\* occurrence, never by a forbidden word inside a longer word.
C3_ForbiddenWholeWord ==
  gPc = "readonly" =>
    LET t == cleanedLower(gQuery)
    IN /\ ContainsForbiddenWord(t) => gErr # NoErr
       /\ gErr = ErrWriteKeywords => ContainsForbiddenWord(t)
       /\ (BeginsReadOnly(t) /\ ~ContainsForbiddenWord(t)
             /\ \E w \in ForbiddenWords : ContainsAnywhere(t, w)) => gErr = NoErr

\* C3 witness: a statement beginning with select was rejected for a
\* forbidden whole word.
C3_Witness ==
  /\ gPc = "readonly"
  /\ gErr = ErrWriteKeywords
  /\ BeginsLimitable(cleanedLower(gQuery))

(***************************************************************************)
(* Claims about ensureLimit (specification SpecGuard).                     *)
(***************************************************************************)
\* C4: ensureLimit returns its input unchanged when limit <= 0 or the
\* comment-stripped statement does not begin with select or with; when
\* limit > 0, the statement begins with select or with and holds no limit
\* token, it returns the trimmed input without one trailing semicolon,
\* followed by " LIMIT <limit>;".
C4_EnsureLimitCases ==
  gPc = "limit" =>
    LET t == cleanedLower(gQuery)
    IN /\ (gLimit <= 0 \/ ~BeginsLimitable(t)) => gOut = gQuery
       /\ (gLimit > 0 /\ BeginsLimitable(t) /\ ~HasLimitToken(t))
            => gOut = LimitedText(gQuery, gLimit)

\* C4 witness: a limit was appended to a text that had surrounding
\* whitespace and a trailing semicolon to trim.
C4_Witness ==
  /\ gPc = "limit"
  /\ gLimit > 0
  /\ gOut # gQuery
  /\ gQuery # TrimSpace(gQuery)
  /\ HasSuffix(TrimSpace(gQuery), txtSemicolon)

\* C5: applying ensureLimit to its own result with the same limit changes
\* nothing.
C5_EnsureLimitIdempotent ==
  gPc = "relimit" => gOut2 = gOut

\* C5 witness: the first application appended a limit and the second was
\* applied to that result.
C5_Witness ==
  /\ gPc = "relimit"
  /\ gOut # gQuery
  /\ gOut2 = gOut

\* C6 as stated: the text is returned unchanged whenever it holds a limit
\* token anywhere, a leading comment included.
C6_AsStated ==
  (gPc = "limit" /\ HasLimitToken(gQuery)) => gOut = gQuery

\* C6 amended: the text is returned unchanged whenever it holds a limit
\* token anywhere after its leading comments (in a string literal or a
\* subquery as well); a limit token that occurs only in a leading comment
\* does not count, and the limit is appended.
C6_LimitTokenAfterComments ==
  gPc = "limit" =>
    LET t == stripLeadingComments(gQuery)
    IN /\ HasLimitToken(t) => gOut = gQuery
       /\ (HasLimitToken(gQuery) /\ ~HasLimitToken(t)
             /\ gLimit > 0 /\ BeginsLimitable(ToLower(t)))
            => gOut = LimitedText(gQuery, gLimit)

\* C6 witness: a limitable statement with a limit token after its leading
\* comments came back unchanged for a positive limit.
C6_Witness ==
  /\ gPc = "limit"
  /\ gLimit > 0
  /\ BeginsLimitable(cleanedLower(gQuery))
  /\ HasLimitToken(stripLeadingComments(gQuery))
  /\ gOut = gQuery

(***************************************************************************)
(* Claims about processNaturalLanguageQuery (specification Spec).          *)
(***************************************************************************)
\* The text looks read-only by the guard's own rule, stated on the text.
LooksReadOnly(q) ==
  LET t == cleanedLower(q)
  IN BeginsReadOnly(t) /\ ~ContainsForbiddenWord(t)

\* The call is past the guard step.
PastGuard == pc \in {"limit", "execute", "render", "write", "print"}

\* C1: with allow-write off, a statement is handed to executeQuery only
\* after ensureReadOnlySQL accepted the normalized SQL generated in the same
\* call; a call whose SQL the guard rejected executes nothing and returns
\* the error; the guard is skipped only with allow-write set.
C1_GuardBeforeExecute ==
  /\ (~cfg.AllowWrite /\ executed # <<>>) =>
        /\ guard = "accepted"
        /\ checked = <<normalizeSQL(raw)>>
        /\ LooksReadOnly(normalizeSQL(raw))
  /\ guard = "rejected" => (executed = <<>> /\ ~PastGuard /\ callErr # NoErr)
  /\ (PastGuard /\ ~cfg.AllowWrite) => guard = "accepted"
  /\ guard = "skipped" => cfg.AllowWrite

\* C1 witness: with allow-write off, a statement was executed after the
\* guard had accepted it.
C1_Witness ==
  /\ ~cfg.AllowWrite
  /\ guard = "accepted"
  /\ executed # <<>>

\* Auto-limit is enabled and a statement that passed the guard was handed
\* to the executor.
AutoLimitedExecution ==
  /\ cfg.Mode # "idle"
  /\ ~cfg.NoAutoLimit
  /\ cfg.Limit > 0
  /\ guard = "accepted"
  /\ executed # <<>>

IntroSupported == iDialect \in {"sqlite", "postgres", "mysql"}
IntroSucceeded == IntroSupported /\ iPc \in {"returned", "done"} /\ iErr = NoErr
IntroFailed == IntroSupported /\ iPc \in {"returned", "done"} /\ iErr # NoErr

\* The scope set: the lower-cased, non-blank tokens of the scope list.
ScopeSet ==
  { ToLower(TrimSpace(iScope[i])) : i \in DOMAIN iScope } \ {<<>>}

\* What follows a dot of n that no later dot follows.
IsSuffixAfterLastDot(n, x) ==
  \E i \in DOMAIN n :
    /\ n[i] = "."
    /\ \A j \in (i + 1)..Len(n) : n[j] # "."
    /\ x = SubSeq(n, i + 1, Len(n))

\* The matching rule on a given spelling n of the candidate name.
MatchesSpelling(n) ==
  \/ ScopeSet = {}
  \/ n \in ScopeSet
  \/ \E x \in ScopeSet : IsSuffixAfterLastDot(n, x)

\* The rule on the lower-cased name, and on the lower-cased name without
\* surrounding white space.
MatchesLowered(name) == MatchesSpelling(ToLower(name))
MatchesTrimmed(name) == MatchesSpelling(ToLower(TrimSpace(name)))

Descriptor(row) ==
  [Name |-> FullName(iDialect, row), Columns |-> ColumnDescs(row.cols)]

Take(seq, n) == SubSeq(seq, 1, IF Len(seq) < n THEN Len(seq) ELSE n)

RECURSIVE MatchingDescriptors(_, _)
MatchingDescriptors(catalog, trimmed) ==
  IF catalog = <<>> THEN <<>>
  ELSE LET row == catalog[Len(catalog)]
           rest == MatchingDescriptors(SubSeq(catalog, 1, Len(catalog) - 1), trimmed)
           name == FullName(iDialect, row)
           hit == IF trimmed THEN MatchesTrimmed(name) ELSE MatchesLowered(name)
       IN IF hit THEN Append(rest, Descriptor(row)) ELSE rest

(***************************************************************************)
(* C8: for every dialect and every cap of at least one, enumeration stops  *)
(* at the cap.  No more than maxTables descriptors are ever accumulated or *)
(* returned; a column lookup is issued only for a table that matches the   *)
(* filter and only while fewer than maxTables descriptors exist (so the    *)
(* lookups never outnumber the cap and run at most one ahead of the        *)
(* descriptors); on success there are as many lookups as descriptors.      *)
(***************************************************************************)
C8_StopsAtCap ==
  IntroSupported =>
    /\ Len(iOut) <= iMaxTables
    /\ Len(iTables) <= iMaxTables
    /\ Len(iProbed) <= iMaxTables
    /\ Len(iOut) <= Len(iProbed)
    /\ Len(iProbed) <= Len(iOut) + 1
    /\ iPc = "columns" => (Len(iProbed) = Len(iOut) + 1 /\ Len(iOut) < iMaxTables)
    /\ \A i \in DOMAIN iProbed : MatchesTrimmed(iProbed[i])
    /\ IntroSucceeded => Len(iProbed) = Len(iTables)

\* The cap cut the enumeration short: more tables match than were looked up.
C8_Witness ==
  /\ IntroSucceeded
  /\ Len(iTables) = iMaxTables
  /\ Len(iProbed) = iMaxTables
  /\ Len(MatchingDescriptors(iCatalog, TRUE)) > iMaxTables
  /\ iScope # <<>>

(***************************************************************************)
(* C9 as stated: the returned descriptors are those of the catalog tables  *)
(* whose lower-cased full name is in the scope set, or whose suffix after  *)
(* the last dot is, in catalog order up to the cap.                        *)
(***************************************************************************)
C9_AsStated ==
  IntroSucceeded => iTables = Take(MatchingDescriptors(iCatalog, FALSE), iMaxTables)

(***************************************************************************)
(* C9: on success the returned descriptors are exactly, in catalog order   *)
(* and up to the cap, those of the catalog tables that match the filter.   *)
(* An empty scope set matches every table; otherwise a table matches iff   *)
(* its lower-cased name with surrounding white space removed is in the     *)
(* scope set, or that name contains a dot and what follows its last dot is *)
(* in the set.                                                             *)
(***************************************************************************)
C9_FilteredInCatalogOrder ==
  IntroSucceeded => iTables = Take(MatchingDescriptors(iCatalog, TRUE), iMaxTables)

\* Scope Users on a postgres catalog holding public.Orders and public.users:
\* the qualified table is returned through its suffix, and Orders is not.
C9_Witness ==
  /\ IntroSucceeded
  /\ iDialect = "postgres"
  /\ iScope = << <<"U","s","e","r","s">> >>
  /\ \E i \in DOMAIN iCatalog : iCatalog[i].table = txtOrders
  /\ \E i \in DOMAIN iTables : iTables[i].Name = txtPublic \o txtDot \o txtUsers
  /\ \A i \in DOMAIN iTables : iTables[i].Columns # <<>>
  /\ Len(iTables) < Len(iCatalog)

(***************************************************************************)
(* C10: a failed introspection returns an error and no descriptors,        *)
(* whatever had been built before the failure, and buildSchemaContext then *)
(* returns an error and no schema text.                                    *)
(***************************************************************************)
C10_NoPartialSchema ==
  /\ iErr # NoErr => iTables = <<>>
  /\ (iPc = "done" /\ iErr # NoErr) => (iCtxErr = iErr /\ iCtxText = <<>>)
  /\ iCtxErr # NoErr => iCtxText = <<>>
  /\ (iPc = "done" /\ iCtxErr = NoErr) => (iErr = NoErr /\ iCtxText # <<>>)

\* A failure after a descriptor had been built.
C10_Witness ==
  /\ IntroFailed
  /\ iPc = "done"
  /\ Len(iOut) > 0
  /\ iCtxErr # NoErr


(***************************************************************************)
(* Vocabulary of the executeQuery claims.                                  *)
(***************************************************************************)
ExecReturned == xPc = "returned"
ExecSucceeded == ExecReturned /\ xErr = NoErr
ExecFailed == ExecReturned /\ xErr # NoErr

NormalizedTypes == {"nil", "int64", "float64", "bool", "string"}

(***************************************************************************)
(* C11: executeQuery is all-or-nothing.  A call that returns an error      *)
(* returns no columns and no rows, whatever it had collected; a call that  *)
(* returns no error returns the driver's columns and one row per driver    *)
(* row.                                                                    *)
(***************************************************************************)
C11_AllOrNothing ==
  /\ xErr # NoErr => (xRetCols = <<>> /\ xRetRows = <<>>)
  /\ ExecSucceeded => (xRetCols = xDriverCols /\ Len(xRetRows) = Len(xDriverRows))
  /\ ~ExecReturned => (xRetCols = <<>> /\ xRetRows = <<>> /\ xErr = NoErr)

\* A failure after a row had been collected.
C11_Witness ==
  /\ ExecFailed
  /\ Len(xResult) > 0
  /\ xRetRows = <<>>

(***************************************************************************)
(* C12: when executeQuery or introspection has returned, no cursor it      *)
(* opened is open, on the failing paths as on the successful one; a        *)
(* cursor is open only inside the call that opened it.                     *)
(***************************************************************************)
C12_CursorsClosedOnReturn ==
  /\ xPc \in {"idle", "start", "returned"} => ~xOpen
  /\ iPc \in {"idle", "start", "returned", "done"} => iOpen = {}

\* Introspection failed in a column lookup, with the table list being read.
C12_Witness ==
  /\ IntroFailed
  /\ iDialect \in {"postgres", "mysql"}
  /\ Len(iProbed) > Len(iOut)
  /\ iOpen = {}

(***************************************************************************)
(* C13: in a result set returned by executeQuery the column list is the    *)
(* driver's, in its order and with its repetitions; the keys of every row  *)
(* are exactly the names of the column list; and the i-th row holds the    *)
(* cells of the driver's i-th row.                                         *)
(***************************************************************************)
C13_ResultSetShape ==
  ExecSucceeded =>
    /\ xRetCols = xDriverCols
    /\ Len(xRetRows) = Len(xDriverRows)
    /\ \A i \in DOMAIN xRetRows :
         /\ DOMAIN xRetRows[i] = Range(xRetCols)
         /\ \A c \in Range(xRetCols) :
              \E j \in DOMAIN xDriverCols :
                /\ xDriverCols[j] = c
                /\ xRetRows[i][c] = normalizeDBValue(xDriverRows[i][j])

\* Two different rows under a column list that repeats a name.
C13_Witness ==
  /\ ExecSucceeded
  /\ xRetCols = <<"id", "id">>
  /\ Len(xRetRows) = 2
  /\ xRetRows[1] # xRetRows[2]
  /\ xDriverRows[1][1] # xDriverRows[1][2]

(***************************************************************************)
(* C15 as stated: every value in a row of a returned result set is null,   *)
(* a signed 64-bit integer, a 64-bit float, a boolean or a string,         *)
(* whatever the type of the scanned cell.                                  *)
(***************************************************************************)
C15_AsStated ==
  ExecSucceeded =>
    \A i \in DOMAIN xRetRows :
      \A c \in DOMAIN xRetRows[i] : xRetRows[i][c].type \in NormalizedTypes

(***************************************************************************)
(* C14: normalizeDBValue maps null to null, a native timestamp to its      *)
(* RFC-3339 text with nanoseconds, and a byte buffer to the first parse of *)
(* its text that succeeds, trying integer, then float, then boolean, and   *)
(* to the text as a string when none does: "42" is the integer 42, "1" the *)
(* integer 1 and not true, "3.14" a float, "true" a boolean, "hello" a     *)
(* string.                                                                 *)
(***************************************************************************)
C14_NormalizeCases ==
  nPc = "done" =>
    /\ nIn.type = "nil" => nOut = GoNil
    /\ nIn.type = "time.Time" => nOut = GoString(FormatRFC3339Nano(nIn.at))
    /\ nIn = GoTime([year |-> 2024, month |-> 1, day |-> 2, hour |-> 15, minute |-> 4,
                     second |-> 5, nsec |-> 500000000, offset |-> 330])
         => nOut.text = <<"2","0","2","4","-","0","1","-","0","2","T","1","5",":","0","4",":",
                          "0","5",".","5","+","0","5",":","3","0">>
    /\ nIn.type = "[]byte" =>
         LET asInt == ParseInt(nIn.text)
             asFloat == ParseFloat(nIn.text)
             asBool == ParseBool(nIn.text)
         IN /\ nOut.type \in {"int64", "float64", "bool", "string"}
            /\ nOut.type = "int64" <=> asInt.ok
            /\ nOut.type = "float64" <=> (~asInt.ok /\ asFloat.ok)
            /\ nOut.type = "bool" <=> (~asInt.ok /\ ~asFloat.ok /\ asBool.ok)
            /\ nOut.type = "int64" => nOut = asInt.val
            /\ nOut.type = "float64" => nOut = asFloat.val
            /\ nOut.type = "bool" => nOut = asBool.val
            /\ nOut.type = "string" => nOut.text = nIn.text
    /\ nIn = GoBytes(<<"4","2">>) => nOut = GoInt64(FALSE, <<"4","2">>)
    /\ nIn = GoBytes(<<"1">>) => nOut = GoInt64(FALSE, <<"1">>)
    /\ nIn = GoBytes(<<"3",".","1","4">>) => nOut = GoFloat64(FALSE, <<"3","1","4">>, 0 - 2)
    /\ nIn = GoBytes(<<"t","r","u","e">>) => nOut = GoBool(TRUE)
    /\ nIn = GoBytes(<<"h","e","l","l","o">>) => nOut = GoString(<<"h","e","l","l","o">>)

\* The buffer "1", which is both a valid integer and a valid boolean.
C14_Witness ==
  /\ nPc = "done"
  /\ nIn = GoBytes(<<"1">>)
  /\ ParseBool(nIn.text).ok
  /\ nOut.type = "int64"

(***************************************************************************)
(* Vocabulary of the rendering claims.                                     *)
(***************************************************************************)
RenderedJSON == rPc = "returned" /\ rFormat = "json" /\ rErr = NoErr
RenderedTable == rPc = "returned" /\ rFormat = "table" /\ rErr = NoErr

\* The names of a column list in its order, each once.
RECURSIVE ColumnOrder(_)
ColumnOrder(cols) ==
  IF cols = <<>> THEN <<>>
  ELSE LET front == ColumnOrder(SubSeq(cols, 1, Len(cols) - 1))
       IN IF cols[Len(cols)] \in Range(front) THEN front ELSE Append(front, cols[Len(cols)])

\* The indented JSON array of the rows, each row's members in column order.
JSONInColumnOrder(rowMaps, cols) ==
  IF Len(rowMaps) = 0 THEN << <<"[", "]">> >>
  ELSE LET Lines[i \in 0..Len(rowMaps)] ==
             IF i = 0 THEN << <<"[">> >>
             ELSE Lines[i - 1]
                  \o JSONObjectLines(rowMaps[i], ColumnOrder(cols), i = Len(rowMaps))
       IN Lines[Len(rowMaps)] \o << <<"]">> >>

(***************************************************************************)
(* C16 as stated: the json rendering writes the rows in their order, the   *)
(* members of each row in the order of the column list, and null as the    *)
(* literal null.                                                           *)
(***************************************************************************)
C16_AsStated ==
  RenderedJSON => rText = JSONInColumnOrder(rRows, rColumns)

(***************************************************************************)
(* C17 as stated: for at least one row over at least one column the table  *)
(* is n + 4 lines, all as long as each other, whatever the cells hold.     *)
(***************************************************************************)
C17_AsStated ==
  (RenderedTable /\ Len(rColumns) >= 1 /\ Len(rRows) >= 1) =>
    /\ Len(rText) = Len(rRows) + 4
    /\ \A i, j \in DOMAIN rText : Len(rText[i]) = Len(rText[j])

\* ---------------------------------------------------------------------------
\* History recording of processNaturalLanguageQuery
\* ---------------------------------------------------------------------------

\* The call of processNaturalLanguageQuery has returned to its caller's frame.
CallReturned == pc = "returned"

\* What recordHistoryBestEffort leaves in the history file for a call that
\* returned: the call's entry, or nothing with --no-history or a failed write.
RecordedFor(e) == IF cfg.NoHistory \/ histErr # NoErr THEN <<>> ELSE <<e>>

\* The error a call returns for the core error text its entry holds.
WrappedError(core) ==
  CASE core = ""           -> NoErr
    [] core = ErrLLM       -> ErrGenerate
    [] core = ErrDriver    -> ErrExecute
    [] core = ErrWriteFile -> ErrOutputFile
    [] OTHER               -> core

\* C18 as stated: whenever the read-only guard has rejected the statement, a
\* history entry with the rejected SQL and the error text has been appended.
C18_AsStated ==
  guard = "rejected" =>
    /\ Len(appended) = 1
    /\ appended[1].SQL = sqlQuery
    /\ appended[1].Error = callErr

\* C18: when the read-only guard rejects the statement, the call's entry holds
\* the rejected SQL and the rejection's error text, nothing was executed, and,
\* unless --no-history is set or the history write fails, that entry is in the
\* history file before the error reaches the caller (ret is still unset when
\* the call returns).
C18_RejectionRecordedBeforeReturn ==
  guard = "rejected" =>
    /\ pc \in {"returned", "exit"}
    /\ executed = <<>>
    /\ entry.SQL = sqlQuery
    /\ entry.SQL = checked[Len(checked)]
    /\ callErr \in {ErrNotReadOnly, ErrWriteKeywords}
    /\ entry.Error = callErr
    /\ appended = RecordedFor(entry)
    /\ CallReturned => ret = NoErr

C18_Witness ==
  /\ guard = "rejected"
  /\ CallReturned
  /\ ret = NoErr
  /\ appended = <<entry>>
  /\ entry.SQL # <<>>
  /\ entry.Error = ErrWriteKeywords

\* C19 as stated: every returned call without --no-history has appended exactly
\* one history entry.
C19_AsStated ==
  (CallReturned /\ ~cfg.NoHistory) => Len(appended) = 1

\* C19: every returned call, whatever its outcome, has appended exactly its
\* own entry to the history, unless --no-history is set or the history write
\* failed, in which case it appended nothing; no entry is appended while the
\* call is running, and the file never grows by more than one entry per query.
C19_OneEntryPerQuery ==
  /\ CallReturned => appended = RecordedFor(entry)
  /\ histErr # NoErr => (~cfg.NoHistory /\ appended = <<>>)
  /\ ~(pc \in {"returned", "exit"}) => appended = <<>>
  /\ histLen <= turn
  /\ cfg.NoHistory => histLen = 0

C19_Witness ==
  /\ CallReturned
  /\ cfg.DryRun
  /\ ~cfg.NoHistory
  /\ callErr = NoErr
  /\ appended = <<entry>>
  /\ histLen = turn
  /\ turn >= 1

\* C20: the error (or success) a call returns is the one its own outcome
\* determines, whether the history append succeeded or failed: the history
\* error is never returned by the call nor by the run, and a single-query run
\* returns the call's error.
C20_HistoryFailureNeverMasks ==
  /\ callErr # ErrAppendHistory
  /\ ret # ErrAppendHistory
  /\ CallReturned => callErr = WrappedError(entry.Error)
  /\ (pc = "exit" /\ cfg.Mode = "query" /\ turn >= 1) => ret = WrappedError(entry.Error)

C20_Witness ==
  /\ CallReturned
  /\ histErr = ErrAppendHistory
  /\ entry.Error = ErrDriver
  /\ callErr = ErrExecute

\* ---------------------------------------------------------------------------
\* Dry run
\* ---------------------------------------------------------------------------

\* A call under --dry-run has returned success.
DryRunReturned == cfg.DryRun /\ CallReturned /\ callErr = NoErr

\* C21 as stated: a dry run that returns success has executed, rendered and
\* written nothing and has recorded a history entry with the generated SQL
\* and zero rows.
C21_AsStated ==
  DryRunReturned =>
    /\ executed = <<>>
    /\ ~rendered /\ ~fileWritten /\ ~printed
    /\ Len(appended) = 1
    /\ appended[1].SQL = sqlQuery
    /\ appended[1].Rows = 0

\* C21: under --dry-run no statement is ever executed, nothing is rendered,
\* printed or written to the output file, and the call never reaches those
\* steps; a call that passes the guard and limit steps returns success with
\* an entry holding the generated SQL and zero rows, which is in the history
\* unless --no-history is set or the history write failed.
C21_DryRunNeverExecutes ==
  cfg.DryRun =>
    /\ executed = <<>>
    /\ ~rendered /\ ~fileWritten /\ ~printed
    /\ ~(pc \in {"execute", "render", "write", "print"})
    /\ (CallReturned /\ guard \in {"accepted", "skipped"}) =>
         /\ callErr = NoErr
         /\ entry = [SQL |-> sqlQuery, Rows |-> 0, Error |-> ""]
         /\ sqlQuery # <<>>
         /\ appended = RecordedFor(entry)

C21_Witness ==
  /\ DryRunReturned
  /\ cfg.HasOutputFile
  /\ guard = "accepted"
  /\ entry.SQL # <<>>
  /\ entry.Rows = 0
  /\ appended = <<entry>>

\* ---------------------------------------------------------------------------
\* Introspection errors
\* ---------------------------------------------------------------------------

\* An error carries its failing step when it is more than the driver's own
\* error: context is added to an error only by wrapping it in a new text.
CarriesStep(err) == err # ErrDriver

\* C22 as stated: when a catalog query or a column lookup of a supported
\* dialect fails, the error that introspectSchema returns, and that
\* buildSchemaContext passes on, names the step that failed.
C22_AsStated ==
  (IntroFailed /\ IntroSupported) => CarriesStep(iErr)

\* ---------------------------------------------------------------------------
\* Reset
\* ---------------------------------------------------------------------------

\* The labels of the target's items, in order, whose file is in one of the
\* given states when runReset is called.
RECURSIVE ItemsIn(_, _)
ItemsIn(items, states) ==
  IF items = <<>> THEN <<>>
  ELSE (IF tStart[Head(items)] \in states THEN <<Head(items)>> ELSE <<>>)
       \o ItemsIn(Tail(items), states)

\* C23: under --dry-run runReset removes no file, for every target and
\* whatever the files are: every file is as it was when the call began and
\* the removed list stays empty; a run that reaches its report prints only
\* the dry-run note, the items that would be removed and those already
\* missing.
C23_DryRunRemovesNothing ==
  tDryRun =>
    /\ tFiles = tStart
    /\ tRemoved = <<>>
    /\ (tPc = "returned" /\ tOut # <<>>) =>
         /\ tErr = NoErr
         /\ tWouldRemove = ItemsIn(resetItemsForTarget(tTarget), {"present", "locked"})
         /\ tMissing = ItemsIn(resetItemsForTarget(tTarget), {"absent"})
         /\ tOut = ResetReportLines(TRUE, <<>>, tMissing, tWouldRemove)
         /\ tOut[1] = <<"Dry run (no files deleted).">>

\* A dry run over all three items, some existing and some missing, reported.
C23_Witness ==
  /\ tDryRun
  /\ tTarget = "all"
  /\ tPc = "returned"
  /\ tErr = NoErr
  /\ tStart["config"] = "present"
  /\ tStart["profile"] = "absent"
  /\ tStart["history"] = "present"
  /\ tFiles = tStart
  /\ tWouldRemove = <<"config", "history">>
  /\ tMissing = <<"profile">>
  /\ Len(tOut) = 6

\* ---------------------------------------------------------------------------
\* Chat sessions
\* ---------------------------------------------------------------------------

\* The positions of a pipeline pass, from its start to its return.
PassPositions ==
  {"process", "normalize", "guard", "limit", "execute", "render", "write", "print",
   "returned"}

\* C24: in chat mode the schema is built at most once and exactly once
\* before any turn; the prompt and every step of every pass have the one
\* connection open and that schema context; a line is read only when no pass
\* is in progress (the locals of the previous pass are gone), and a pass
\* executes at most one statement.
C24_ChatSchemaOnceTurnsInSequence ==
  cfg.Mode = "chat" =>
    /\ schemaBuilt <= 1
    /\ turn >= 1 => schemaBuilt = 1
    /\ pc \in PassPositions \cup {"prompt"} => (schemaBuilt = 1 /\ dbOpen)
    /\ pc = "prompt" => CallIdle
    /\ pc \in PassPositions => turn >= 1 \/ pc = "process"
    /\ Len(executed) <= 1

\* The second turn of a session has run to its end on the schema built once.
C24_Witness ==
  /\ cfg.Mode = "chat"
  /\ turn = 2
  /\ pc = "returned"
  /\ executed # <<>>
  /\ schemaBuilt = 1
  /\ dbOpen

\* ---------------------------------------------------------------------------
\* Leading comments
\* ---------------------------------------------------------------------------

\* t, trimmed, opens a comment that never ends: -- with no newline after it,
\* or /* with no */ after it.
UnterminatedHead(t) ==
  LET s == TrimSpace(t)
  IN \/ HasPrefix(s, txtLineComment) /\ ~ContainsAnywhere(s, txtNewline)
     \/ HasPrefix(s, txtBlockOpen) /\ ~ContainsAnywhere(s, txtBlockClose)

StripReturned == cPc = "returned"

\* What holds of the loop in every state: the text only shrinks; the result
\* is the one the guard computes, is trimmed and opens no comment; and once
\* the text left opens an unterminated comment the result is empty, the
\* guard rejects the input and ensureLimit returns it unchanged.
StripLoopInvariant ==
  /\ Len(cText) <= Len(cIn)
  /\ StripReturned =>
       /\ cOut = stripLeadingComments(cIn)
       /\ cOut = TrimSpace(cOut)
       /\ ~HasPrefix(cOut, txtLineComment)
       /\ ~HasPrefix(cOut, txtBlockOpen)
  /\ (cPc \in {"loop", "returned"} /\ UnterminatedHead(cText)) =>
       /\ stripLeadingComments(cIn) = <<>>
       /\ StripReturned => cOut = <<>>
       /\ ensureReadOnlySQL(cIn) = ErrNotReadOnly
       /\ \A n \in GuardLimits : ensureLimit(cIn, n) = cIn

C26_LimitPreservesAcceptance ==
  gPc = "reguard" =>
    /\ ensureReadOnlySQL(gQuery) = NoErr => gErr = NoErr
    /\ gErr = ensureReadOnlySQL(gQuery)

\* An accepted statement behind a leading comment got a limit appended and
\* was accepted again.
C26_Witness ==
  /\ gPc = "reguard"
  /\ gErr = NoErr
  /\ gLimit > 0
  /\ gOut # gQuery
  /\ HasPrefix(gQuery, txtBlockOpen)

\* ---------------------------------------------------------------------------
\* Connections needed by introspection
\* ---------------------------------------------------------------------------

\* An open result cursor holds one connection of the pool.
ConnectionsHeld == Cardinality(iOpen)

\* C27: sqlite introspection never has more than one cursor open; no cursor
\* is open when a query is issued (the catalog query at the start, each
\* probe), so the table-name cursor is closed before the first probe and
\* each probe cursor before the next, and one connection is enough; postgres
\* and mysql issue each column lookup with the table-list cursor open and so
\* hold two connections during a lookup and never more.
C27_CursorsAtATime ==
  /\ iDialect = "sqlite" =>
       /\ ConnectionsHeld <= 1
       /\ iPc \in {"start", "probe"} => iOpen = {}
       /\ iPc = "names" => iOpen = {"tables"}
       /\ iPc = "columns" => iOpen = {"columns"}
       /\ iProbed # <<>> => ~("tables" \in iOpen)
  /\ iDialect \in {"postgres", "mysql"} =>
       /\ ConnectionsHeld <= 2
       /\ iPc = "start" => iOpen = {}
       /\ iPc \in {"next", "lookup", "end"} => iOpen = {"tables"}
       /\ iPc = "columns" => iOpen = {"tables", "columns"}

\* The second probe of a sqlite introspection has its cursor open, alone.
C27_Witness ==
  /\ iDialect = "sqlite"
  /\ iPc = "columns"
  /\ Len(iProbed) = 2
  /\ iOpen = {"columns"}

\* ---------------------------------------------------------------------------
\* The history entry and the outcome of the call
\* ---------------------------------------------------------------------------

\* C28: when processNaturalLanguageQuery returns, its entry has an error
\* text iff the call returns an error; Rows is the number of result rows
\* when the call printed its result and 0 on every other path, the failures
\* after a successful execution included; SQL is empty exactly on the two
\* failures before a non-empty statement exists, the LLM failure and the
\* empty SQL.
C28_EntryAgreesWithOutcome ==
  CallReturned =>
    /\ (entry.Error # "") <=> (callErr # NoErr)
    /\ callErr = WrappedError(entry.Error)
    /\ entry.Rows = (IF printed THEN rows ELSE 0)
    /\ printed <=> (callErr = NoErr /\ ~cfg.DryRun)
    /\ (entry.SQL = <<>>) <=> (entry.Error \in {ErrLLM, ErrEmptySQL})
    /\ (entry.SQL = <<>>) <=> (sqlQuery = <<>>)
    /\ entry.SQL # <<>> => entry.SQL = sqlQuery

\* A call that executed a statement with two result rows and then failed to
\* render them: the entry has the statement, the error and zero rows.
C28_Witness ==
  /\ CallReturned
  /\ callErr = ErrRender
  /\ rows = 2
  /\ entry.Rows = 0
  /\ entry.SQL # <<>>
  /\ entry.Error = ErrRender

\* ---------------------------------------------------------------------------
\* The guard and leading comments
\* ---------------------------------------------------------------------------

\* c is one complete block comment: it opens with /*, and the first */ after
\* the opening is its end.
IsCompleteBlockComment(c) ==
  /\ Len(c) >= 4
  /\ HasPrefix(c, txtBlockOpen)
  /\ HasSuffix(c, txtBlockClose)
  /\ \A i \in 3..(Len(c) - 2) : ~OccursAt(c, txtBlockClose, i)

\* c is one complete line comment: it opens with -- and its only newline is
\* its last character.
IsCompleteLineComment(c) ==
  /\ Len(c) >= 3
  /\ HasPrefix(c, txtLineComment)
  /\ c[Len(c)] = "\n"
  /\ \A i \in 1..(Len(c) - 1) : c[i] # "\n"

IsCompleteComment(c) == IsCompleteBlockComment(c) \/ IsCompleteLineComment(c)

\* C29 as stated: the verdict on a text that begins with a complete comment
\* is the verdict on the text without that comment.
C29_AsStated ==
  gPc = "readonly" =>
    \A k \in 1..Len(gQuery) :
      IsCompleteComment(SubSeq(gQuery, 1, k))
        => gErr = ensureReadOnlySQL(SubSeq(gQuery, k + 1, Len(gQuery)))

\* ---------------------------------------------------------------------------
\* A failing turn in a chat session
\* ---------------------------------------------------------------------------

\* The errors a chat session itself can end with.
ChatRunErrors == {NoErr, ErrOpenDatabase, ErrBuildSchema, ErrScanner}

\* In every state of a chat session: a returned turn, whatever its error,
\* has left the connection open and the session's result unset; the session
\* never returns a turn's error; the connection is closed once it has ended.
ChatSurvivesState ==
  cfg.Mode = "chat" =>
    /\ CallReturned => (dbOpen /\ ret = NoErr)
    /\ ret \in ChatRunErrors
    /\ pc = "exit" => ~dbOpen

\* In every step of a chat session: after a returned turn the loop goes to
\* read the next line; the session ends only from the prompt (on :exit,
\* :quit, end of input or a read error) or before it began (the database or
\* the schema failed), and ends with the connection closed.
ChatSurvivesStep ==
  cfg.Mode = "chat" =>
    /\ CallReturned => (pc' = "prompt" /\ dbOpen' /\ ret' = NoErr)
    /\ (pc' = "exit" /\ pc # "exit") =>
         /\ pc \in {"start", "schema", "prompt"}
         /\ ~dbOpen'
         /\ pc = "prompt" => ret' \in {NoErr, ErrScanner}

\* C30: a failing turn never ends a chat session: the loop goes on to read
\* the next line after every returned turn; the session ends only at the
\* prompt, and the connection is closed when it ends.
C30_FailingTurnKeepsSession ==
  /\ []ChatSurvivesState
  /\ [][ChatSurvivesStep]_vars

\* The second turn of a session has failed in execution, the session open.
C30_Witness ==
  /\ cfg.Mode = "chat"
  /\ CallReturned
  /\ turn = 2
  /\ callErr = ErrExecute
  /\ dbOpen
  /\ ret = NoErr

====
